---------------------------- MODULE Spec2Model ----------------------------
(***************************************************************************)
(* A model of the clause-level diff and risk-scoring engine of             *)
(* src/services/diff_engine.py.                                            *)
(*                                                                         *)
(* Text is a sequence of one-character strings, so that strip, lower,      *)
(* split, substring tests, the regular expressions of the extractors and   *)
(* difflib's matching-block ratio are computed character by character, as  *)
(* the code computes them.  A similarity is the exact fraction <<n, d>>    *)
(* (= n/d) that Python rounds to a float; a dollar amount is an integer    *)
(* number of cents.  An exception raised by the code is an outcome of the  *)
(* operation: the operators that can raise return a record whose field     *)
(* "err" names the exception.                                              *)
(***************************************************************************)
EXTENDS Integers, Sequences, FiniteSets, TLC

(***************************************************************************)
(* Characters and the str methods the engine uses.                         *)
(***************************************************************************)
UpperLetters ==
    <<"A","B","C","D","E","F","G","H","I","J","K","L","M",
      "N","O","P","Q","R","S","T","U","V","W","X","Y","Z">>

LowerLetters ==
    <<"a","b","c","d","e","f","g","h","i","j","k","l","m",
      "n","o","p","q","r","s","t","u","v","w","x","y","z">>

Digits == <<"0","1","2","3","4","5","6","7","8","9">>

UpperSet == {UpperLetters[k] : k \in 1..26}

LowerSet == {LowerLetters[k] : k \in 1..26}

DigitSet == {Digits[k] : k \in 1..10}

ToLowerMap == [c \in UpperSet |-> LowerLetters[CHOOSE k \in 1..26 : UpperLetters[k] = c]]

ToUpperMap == [c \in LowerSet |-> UpperLetters[CHOOSE k \in 1..26 : LowerLetters[k] = c]]

DigitValue == [c \in DigitSet |-> (CHOOSE k \in 1..10 : Digits[k] = c) - 1]

\* str.isspace for one character
IsSpace(c) == c \in {" ", "\t", "\n", "\r", "\f"}

\* \d
IsDigit(c) == c \in DigitSet

\* \w
IsWordChar(c) == c \in UpperSet \cup LowerSet \cup DigitSet \cup {"_"}

LowerChar(c) == IF c \in UpperSet THEN ToLowerMap[c] ELSE c

UpperChar(c) == IF c \in LowerSet THEN ToUpperMap[c] ELSE c

\* str.lower()
Lower(s) == [k \in 1..Len(s) |-> LowerChar(s[k])]

\* str.isupper(): at least one cased character and no lower-case one
IsUpper(s) ==
    /\ \E k \in 1..Len(s) : s[k] \in UpperSet
    /\ \A k \in 1..Len(s) : s[k] \notin LowerSet

\* str.strip()
Strip(s) ==
    LET keep == {k \in 1..Len(s) : ~IsSpace(s[k])}
    IN  IF keep = {} THEN <<>>
        ELSE LET lo == CHOOSE k \in keep : \A m \in keep : k <= m
                 hi == CHOOSE k \in keep : \A m \in keep : k >= m
             IN  SubSeq(s, lo, hi)

\* s[:n]
Truncate(s, n) == IF Len(s) <= n THEN s ELSE SubSeq(s, 1, n)

\* whether s[i:] starts with w (i is 1-based)
StartsAt(s, i, w) ==
    /\ i >= 1
    /\ i + Len(w) - 1 <= Len(s)
    /\ \A k \in 1..Len(w) : s[i + k - 1] = w[k]

\* w in s
Contains(s, w) == \E i \in 1..(Len(s) - Len(w) + 1) : StartsAt(s, i, w)

\* s.endswith(w)
EndsWith(s, w) == Len(s) >= Len(w) /\ StartsAt(s, Len(s) - Len(w) + 1, w)

\* s.split(sep) for a one-character separator: never empty, "" gives [""]
RECURSIVE SplitFrom(_, _, _)
SplitFrom(s, sep, from) ==
    LET cuts == {k \in from..Len(s) : s[k] = sep}
    IN  IF cuts = {} THEN <<SubSeq(s, from, Len(s))>>
        ELSE LET c == CHOOSE k \in cuts : \A m \in cuts : k <= m
             IN  <<SubSeq(s, from, c - 1)>> \o SplitFrom(s, sep, c + 1)

Split(s, sep) == SplitFrom(s, sep, 1)

\* the first position >= i that is not white space (Len(s) + 1 when there is none)
RECURSIVE SkipSpaces(_, _)
SkipSpaces(s, i) ==
    IF i <= Len(s) /\ IsSpace(s[i]) THEN SkipSpaces(s, i + 1) ELSE i

\* the first position >= i that is not a digit
RECURSIVE SkipDigits(_, _)
SkipDigits(s, i) ==
    IF i <= Len(s) /\ IsDigit(s[i]) THEN SkipDigits(s, i + 1) ELSE i

\* int(d) for a string of digits
RECURSIVE ParseInt(_)
ParseInt(d) ==
    IF d = <<>> THEN 0
    ELSE 10 * ParseInt(SubSeq(d, 1, Len(d) - 1)) + DigitValue[d[Len(d)]]

\* str(n) for n >= 0
RECURSIVE IntToStr(_)
IntToStr(n) ==
    IF n < 10 THEN <<Digits[n + 1]>>
    ELSE IntToStr(n \div 10) \o <<Digits[(n % 10) + 1]>>

MinOf(S) == CHOOSE x \in S : \A y \in S : x <= y

MaxOf(S) == CHOOSE x \in S : \A y \in S : x >= y

(***************************************************************************)
(* The string literals of the engine.                                      *)
(***************************************************************************)
S_Document == <<"D","o","c","u","m","e","n","t">>

\* the keywords the engine looks for
K ==
    [confidential |-> <<"c","o","n","f","i","d","e","n","t","i","a","l">>,
     terminat |-> <<"t","e","r","m","i","n","a","t">>,
     payment |-> <<"p","a","y","m","e","n","t">>,
     fee |-> <<"f","e","e">>,
     consideration |-> <<"c","o","n","s","i","d","e","r","a","t","i","o","n">>,
     liabilit |-> <<"l","i","a","b","i","l","i","t">>,
     indemnif |-> <<"i","n","d","e","m","n","i","f">>,
     unlimited |-> <<"u","n","l","i","m","i","t","e","d">>,
     cap |-> <<"c","a","p">>,
     noncompete_hyphen |-> <<"n","o","n","-","c","o","m","p","e","t","e">>,
     non_compete |-> <<"n","o","n"," ","c","o","m","p","e","t","e">>,
     noncompete |-> <<"n","o","n","c","o","m","p","e","t","e">>,
     compete |-> <<"c","o","m","p","e","t","e">>,
     governing_law |-> <<"g","o","v","e","r","n","i","n","g"," ","l","a","w">>,
     governed_by |-> <<"g","o","v","e","r","n","e","d"," ","b","y">>,
     dispute |-> <<"d","i","s","p","u","t","e">>,
     arbitrat |-> <<"a","r","b","i","t","r","a","t">>,
     arbitration |-> <<"a","r","b","i","t","r","a","t","i","o","n">>,
     court |-> <<"c","o","u","r","t">>,
     attorney |-> <<"a","t","t","o","r","n","e","y">>,
     legal_fee |-> <<"l","e","g","a","l"," ","f","e","e">>,
     prevailing_party |-> <<"p","r","e","v","a","i","l","i","n","g"," ","p","a","r","t","y">>,
     term |-> <<"t","e","r","m">>,
     confidentiality |-> <<"c","o","n","f","i","d","e","n","t","i","a","l","i","t","y">>,
     indemnity |-> <<"i","n","d","e","m","n","i","t","y">>,
     liability |-> <<"l","i","a","b","i","l","i","t","y">>,
     intellectual_property |->
         <<"i","n","t","e","l","l","e","c","t","u","a","l"," ","p","r","o","p","e","r","t",
           "y">>,
     termination |-> <<"t","e","r","m","i","n","a","t","i","o","n">>,
     warranty |-> <<"w","a","r","r","a","n","t","y">>,
     penalty |-> <<"p","e","n","a","l","t","y">>,
     liquidated_damages |->
         <<"l","i","q","u","i","d","a","t","e","d"," ","d","a","m","a","g","e","s">>,
     obligation |-> <<"o","b","l","i","g","a","t","i","o","n">>,
     restriction |-> <<"r","e","s","t","r","i","c","t","i","o","n">>,
     confidentiality_period |->
         <<"c","o","n","f","i","d","e","n","t","i","a","l","i","t","y"," ","p","e","r","i","o",
           "d">>,
     reduced |-> <<"r","e","d","u","c","e","d">>,
     unlimited_liability |->
         <<"u","n","l","i","m","i","t","e","d"," ","l","i","a","b","i","l","i","t","y">>,
     year |-> <<"y","e","a","r">>,
     day |-> <<"d","a","y">>,
     month |-> <<"m","o","n","t","h">>,
     thousand |-> <<"t","h","o","u","s","a","n","d">>,
     million |-> <<"m","i","l","l","i","o","n">>,
     hundred_thousand |-> <<"h","u","n","d","r","e","d"," ","t","h","o","u","s","a","n","d">>]

\* the descriptions the engine returns; a description with numbers is cut where
\* the numbers go
D ==
    [conf_high |->
         <<"C","o","n","f","i","d","e","n","t","i","a","l","i","t","y"," ","p","e","r","i","o",
           "d"," ","s","i","g","n","i","f","i","c","a","n","t","l","y"," ","r","e","d","u","c",
           "e","d"," ","f","r","o","m"," ">>,
     conf_medium |->
         <<"C","o","n","f","i","d","e","n","t","i","a","l","i","t","y"," ","p","e","r","i","o",
           "d"," ","r","e","d","u","c","e","d"," ","f","r","o","m"," ">>,
     to |-> <<" ","t","o"," ">>,
     years |-> <<" ","y","e","a","r","s">>,
     months |-> <<" ","m","o","n","t","h","s">>,
     days |-> <<" ","d","a","y","s">>,
     term_high |->
         <<"T","e","r","m","i","n","a","t","i","o","n"," ","n","o","t","i","c","e"," ","s","i",
           "g","n","i","f","i","c","a","n","t","l","y"," ","r","e","d","u","c","e","d"," ","f",
           "r","o","m"," ">>,
     term_medium |->
         <<"T","e","r","m","i","n","a","t","i","o","n"," ","n","o","t","i","c","e"," ","r","e",
           "d","u","c","e","d"," ","f","r","o","m"," ">>,
     pay_increased |->
         <<"P","a","y","m","e","n","t"," ","i","n","c","r","e","a","s","e","d"," ","f","r","o",
           "m"," ","$">>,
     to_dollar |-> <<" ","t","o"," ","$">>,
     pay_decreased |->
         <<"P","a","y","m","e","n","t"," ","a","m","o","u","n","t"," ","d","e","c","r","e","a",
           "s","e","d">>,
     deadline |->
         <<"P","a","y","m","e","n","t"," ","d","e","a","d","l","i","n","e"," ","s","h","o","r",
           "t","e","n","e","d"," ","f","r","o","m"," ">>,
     unlimited |->
         <<"L","i","a","b","i","l","i","t","y"," ","c","a","p"," ","r","e","m","o","v","e","d",
           " ","-"," ","u","n","l","i","m","i","t","e","d"," ","l","i","a","b","i","l","i","t",
           "y"," ","i","n","t","r","o","d","u","c","e","d">>,
     cap_removed |->
         <<"L","i","a","b","i","l","i","t","y"," ","c","a","p"," ","r","e","m","o","v","e",
           "d">>,
     cap_increased |->
         <<"L","i","a","b","i","l","i","t","y"," ","c","a","p"," ","i","n","c","r","e","a","s",
           "e","d">>,
     noncompete_years |->
         <<"N","e","w"," ","n","o","n","-","c","o","m","p","e","t","e"," ","r","e","s","t","r",
           "i","c","t","i","o","n"," ","a","d","d","e","d"," ","(">>,
     years_paren |-> <<" ","y","e","a","r","s",")">>,
     noncompete |->
         <<"N","e","w"," ","n","o","n","-","c","o","m","p","e","t","e"," ","r","e","s","t","r",
           "i","c","t","i","o","n"," ","a","d","d","e","d">>,
     law |->
         <<"G","o","v","e","r","n","i","n","g"," ","l","a","w"," ","c","h","a","n","g","e","d",
           " ","f","r","o","m"," ">>,
     to_litigation |->
         <<"D","i","s","p","u","t","e"," ","r","e","s","o","l","u","t","i","o","n"," ","c","h",
           "a","n","g","e","d"," ","f","r","o","m"," ","a","r","b","i","t","r","a","t","i","o",
           "n"," ","t","o"," ","l","i","t","i","g","a","t","i","o","n">>,
     to_arbitration |->
         <<"D","i","s","p","u","t","e"," ","r","e","s","o","l","u","t","i","o","n"," ","c","h",
           "a","n","g","e","d"," ","f","r","o","m"," ","l","i","t","i","g","a","t","i","o","n",
           " ","t","o"," ","a","r","b","i","t","r","a","t","i","o","n">>,
     fee_recovery |->
         <<"F","e","e"," ","r","e","c","o","v","e","r","y"," ","c","h","a","n","g","e","d"," ",
           "-"," ","n","o"," ","l","o","n","g","e","r"," ","f","a","v","o","r","a","b","l","e",
           " ","t","o"," ","p","r","e","v","a","i","l","i","n","g"," ","p","a","r","t","y">>,
     term_extended |->
         <<"A","g","r","e","e","m","e","n","t"," ","t","e","r","m"," ","e","x","t","e","n","d",
           "e","d"," ","f","r","o","m"," ">>,
     critical_significant |->
         <<"S","i","g","n","i","f","i","c","a","n","t"," ","c","h","a","n","g","e"," ","t","o",
           " ","c","r","i","t","i","c","a","l"," ","c","l","a","u","s","e">>,
     critical_moderate |->
         <<"M","o","d","e","r","a","t","e"," ","c","h","a","n","g","e"," ","t","o"," ","c","r",
           "i","t","i","c","a","l"," ","c","l","a","u","s","e">>,
     significant |->
         <<"S","i","g","n","i","f","i","c","a","n","t"," ","c","h","a","n","g","e">>,
     minor |-> <<"M","i","n","o","r"," ","c","h","a","n","g","e">>,
     minimal |-> <<"M","i","n","i","m","a","l"," ","c","h","a","n","g","e">>,
     removed |->
         <<"T","h","i","s"," ","c","l","a","u","s","e"," ","w","a","s"," ","r","e","m","o","v",
           "e","d"," ","f","r","o","m"," ","t","h","e"," ","n","e","w"," ","v","e","r","s","i",
           "o","n">>,
     added |->
         <<"T","h","i","s"," ","i","s"," ","a"," ","n","e","w"," ","c","l","a","u","s","e"," ",
           "a","d","d","e","d"," ","i","n"," ","t","h","e"," ","n","e","w"," ","v","e","r","s",
           "i","o","n">>,
     Clause |-> <<"C","l","a","u","s","e"," ">>,
     New_Clause |-> <<"N","e","w"," ","C","l","a","u","s","e"," ">>]

\* the list states of extract_state, in its order
States == <<
    <<"a","l","a","b","a","m","a">>,
    <<"a","l","a","s","k","a">>,
    <<"a","r","i","z","o","n","a">>,
    <<"a","r","k","a","n","s","a","s">>,
    <<"c","a","l","i","f","o","r","n","i","a">>,
    <<"c","o","l","o","r","a","d","o">>,
    <<"c","o","n","n","e","c","t","i","c","u","t">>,
    <<"d","e","l","a","w","a","r","e">>,
    <<"f","l","o","r","i","d","a">>,
    <<"g","e","o","r","g","i","a">>,
    <<"h","a","w","a","i","i">>,
    <<"i","d","a","h","o">>,
    <<"i","l","l","i","n","o","i","s">>,
    <<"i","n","d","i","a","n","a">>,
    <<"i","o","w","a">>,
    <<"k","a","n","s","a","s">>,
    <<"k","e","n","t","u","c","k","y">>,
    <<"l","o","u","i","s","i","a","n","a">>,
    <<"m","a","i","n","e">>,
    <<"m","a","r","y","l","a","n","d">>,
    <<"m","a","s","s","a","c","h","u","s","e","t","t","s">>,
    <<"m","i","c","h","i","g","a","n">>,
    <<"m","i","n","n","e","s","o","t","a">>,
    <<"m","i","s","s","i","s","s","i","p","p","i">>,
    <<"m","i","s","s","o","u","r","i">>,
    <<"m","o","n","t","a","n","a">>,
    <<"n","e","b","r","a","s","k","a">>,
    <<"n","e","v","a","d","a">>,
    <<"n","e","w"," ","h","a","m","p","s","h","i","r","e">>,
    <<"n","e","w"," ","j","e","r","s","e","y">>,
    <<"n","e","w"," ","m","e","x","i","c","o">>,
    <<"n","e","w"," ","y","o","r","k">>,
    <<"n","o","r","t","h"," ","c","a","r","o","l","i","n","a">>,
    <<"n","o","r","t","h"," ","d","a","k","o","t","a">>,
    <<"o","h","i","o">>,
    <<"o","k","l","a","h","o","m","a">>,
    <<"o","r","e","g","o","n">>,
    <<"p","e","n","n","s","y","l","v","a","n","i","a">>,
    <<"r","h","o","d","e"," ","i","s","l","a","n","d">>,
    <<"s","o","u","t","h"," ","c","a","r","o","l","i","n","a">>,
    <<"s","o","u","t","h"," ","d","a","k","o","t","a">>,
    <<"t","e","n","n","e","s","s","e","e">>,
    <<"t","e","x","a","s">>,
    <<"u","t","a","h">>,
    <<"v","e","r","m","o","n","t">>,
    <<"v","i","r","g","i","n","i","a">>,
    <<"w","a","s","h","i","n","g","t","o","n">>,
    <<"w","e","s","t"," ","v","i","r","g","i","n","i","a">>,
    <<"w","i","s","c","o","n","s","i","n">>,
    <<"w","y","o","m","i","n","g">>>>

\* the dictionary word_to_num of extract_amounts, as <<word, number>> pairs
WordToNum == {
    <<<<"o","n","e">>, 1>>,
    <<<<"t","w","o">>, 2>>,
    <<<<"t","h","r","e","e">>, 3>>,
    <<<<"f","o","u","r">>, 4>>,
    <<<<"f","i","v","e">>, 5>>,
    <<<<"s","i","x">>, 6>>,
    <<<<"s","e","v","e","n">>, 7>>,
    <<<<"e","i","g","h","t">>, 8>>,
    <<<<"n","i","n","e">>, 9>>,
    <<<<"t","e","n">>, 10>>,
    <<<<"f","i","f","t","e","e","n">>, 15>>,
    <<<<"t","w","e","n","t","y">>, 20>>,
    <<<<"f","i","f","t","y">>, 50>>,
    <<<<"h","u","n","d","r","e","d">>, 100>>}

\* the dictionary text_amounts of extract_amounts, in its order, as <<word, value>> pairs
TextAmounts == <<<<K.thousand, 1000>>, <<K.million, 1000000>>, <<K.hundred_thousand, 100000>>>>

(***************************************************************************)
(* Fractions <<n, d>> with d > 0.                                          *)
(***************************************************************************)
FracLess(p, q) == p[1] * q[2] < q[1] * p[2]

\* p * 0.5 + q * 0.5
FracHalfSum(p, q) == <<p[1] * q[2] + q[1] * p[2], 2 * p[2] * q[2]>>

(***************************************************************************)
(* difflib.SequenceMatcher(None, a, b).ratio() for sequences shorter than  *)
(* 200 elements (no junk, and the popularity heuristic is off).            *)
(***************************************************************************)
\* the length of the common run of a[i..ahi] and b[j..bhi]
RECURSIVE CommonRun(_, _, _, _, _, _)
CommonRun(a, b, i, j, ahi, bhi) ==
    IF i <= ahi /\ j <= bhi /\ a[i] = b[j]
    THEN 1 + CommonRun(a, b, i + 1, j + 1, ahi, bhi)
    ELSE 0

\* the places where a common block of a[alo..ahi] and b[blo..bhi] starts
BlockStarts(a, b, alo, ahi, blo, bhi) ==
    {p \in (alo..ahi) \X (blo..bhi) :
        /\ a[p[1]] = b[p[2]]
        /\ \/ p[1] = alo
           \/ p[2] = blo
           \/ a[p[1] - 1] # b[p[2] - 1]}

\* among the blocks of size k, the one that starts earliest in a, then earliest in b
EarliestBlock(longest, i, k) == <<i, MinOf({p[2] : p \in {q \in longest : q[1] = i}}), k>>

LongestBlock(size, k) ==
    EarliestBlock({p \in DOMAIN size : size[p] = k},
                  MinOf({p[1] : p \in {q \in DOMAIN size : size[q] = k}}), k)

\* the block to return, given the size of the block at each start
BestBlock(size, alo, blo) ==
    IF DOMAIN size = {} THEN <<alo, blo, 0>>
    ELSE LongestBlock(size, MaxOf({size[p] : p \in DOMAIN size}))

\* find_longest_match: <<i, j, k>>, the longest block, the earliest in a, then in b
FindLongestMatch(a, b, alo, ahi, blo, bhi) ==
    BestBlock([p \in BlockStarts(a, b, alo, ahi, blo, bhi) |->
                  CommonRun(a, b, p[1], p[2], ahi, bhi)],
              alo, blo)

\* the sum of the sizes of get_matching_blocks(): the longest block m, then
\* the blocks to its left and to its right
RECURSIVE MatchedSize(_, _, _, _, _, _)
RECURSIVE MatchedAround(_, _, _, _, _, _, _)
MatchedAround(a, b, alo, ahi, blo, bhi, m) ==
    IF m[3] = 0 THEN 0
    ELSE m[3]
         + MatchedSize(a, b, alo, m[1] - 1, blo, m[2] - 1)
         + MatchedSize(a, b, m[1] + m[3], ahi, m[2] + m[3], bhi)

MatchedSize(a, b, alo, ahi, blo, bhi) ==
    IF alo > ahi \/ blo > bhi THEN 0
    ELSE MatchedAround(a, b, alo, ahi, blo, bhi,
                       FindLongestMatch(a, b, alo, ahi, blo, bhi))

\* ratio(): 2.0 * matches / (len(a) + len(b)), and 1.0 for two empty sequences
Ratio(a, b) ==
    IF Len(a) + Len(b) = 0 THEN <<1, 1>>
    ELSE <<2 * MatchedSize(a, b, 1, Len(a), 1, Len(b)), Len(a) + Len(b)>>

calculate_similarity(text1, text2) ==
    IF text1 = <<>> \/ text2 = <<>> THEN <<0, 1>>
    ELSE Ratio(Lower(text1), Lower(text2))

(***************************************************************************)
(* segment_clauses.  A clause is a record [title, content, number].        *)
(***************************************************************************)
Clause(t, c, n) == [title |-> t, content |-> c, number |-> n]

\* the materiality threshold 0.98, the acceptance floor 0.2 and the
\* similarity 0.9 assigned on a number match, as fractions
\* a threshold no similarity reaches: every matched pair would be reported
ThresholdAboveOne == <<101, 100>>

MaterialThreshold == <<98, 100>>

MatchFloor == <<2, 10>>

NumberMatchSimilarity == <<9, 10>>

MaxHeadingLen == 100

MinCapsLen == 3

MaxTextLen == 800

\* whether rest, what follows the dot, matches \s*([A-Z][A-Z\s]+)$
IsCapsTitle(rest, first) ==
    /\ \A k \in 1..Len(rest) : rest[k] \in UpperSet \/ IsSpace(rest[k])
    /\ first < Len(rest)
    /\ rest[first] \in UpperSet

HeadingAfterDot(stripped, dot, rest) ==
    IF /\ dot > 1
       /\ dot <= Len(stripped)
       /\ stripped[dot] = "."
       /\ IsCapsTitle(rest, SkipSpaces(rest, 1))
    THEN SubSeq(stripped, 1, dot - 1)
    ELSE <<>>

HeadingNumber(stripped, dot) ==
    HeadingAfterDot(stripped, dot, SubSeq(stripped, dot + 1, Len(stripped)))

\* re.match(r'^(\d+)\.\s*([A-Z][A-Z\s]+)$', stripped): group(1), or <<>> for no match
NumberedHeading(stripped) == HeadingNumber(stripped, SkipDigits(stripped, 1))

\* one of the three heading tests of the loop body holds
IsHeading(stripped) ==
    \/ NumberedHeading(stripped) # <<>>
    \/ IsUpper(stripped) /\ Len(stripped) > MinCapsLen /\ Len(stripped) < MaxHeadingLen
    \/ EndsWith(stripped, <<":">>) /\ Len(stripped) < MaxHeadingLen

\* Flush without the test of the content: every heading closes a clause
FlushAlways(clauses, current) == Append(clauses, current)

\* the clauses list after a heading: the clause in progress is appended if it has content
Flush(clauses, current) ==
    IF current.content # <<>> THEN Append(clauses, current) ELSE clauses

\* the loop over the lines from line k on; the result is <<clauses, current_clause>>
RECURSIVE SegmentLines(_, _, _, _)
RECURSIVE SegmentLine(_, _, _, _, _)
SegmentLine(lines, k, clauses, current, stripped) ==
    IF stripped = <<>>
    THEN SegmentLines(lines, k + 1, clauses, current)
    ELSE IF IsHeading(stripped)
    THEN SegmentLines(lines, k + 1, Flush(clauses, current),
                      Clause(stripped, <<>>, NumberedHeading(stripped)))
    ELSE SegmentLines(lines, k + 1, clauses,
                      [current EXCEPT !.content = @ \o stripped \o <<" ">>])

SegmentLines(lines, k, clauses, current) ==
    IF k > Len(lines) THEN <<clauses, current>>
    ELSE SegmentLine(lines, k, clauses, current, Strip(lines[k]))

\* LastClause without the fallback: a text without content gives no clause
LastClauseNoFallback(text, clauses) == clauses

\* the end of segment_clauses: the last clause, then the fallback
LastClause(text, clauses) ==
    IF clauses = <<>> THEN <<Clause(S_Document, text, <<>>)>> ELSE clauses

Segmented(text, done) == LastClause(text, Flush(done[1], done[2]))

segment_clauses(text) ==
    Segmented(text, SegmentLines(Split(text, "\n"), 1, <<>>, Clause(<<>>, <<>>, <<>>)))

(***************************************************************************)
(* match_clauses.  Indices are positions 1..Len, one more than Python's;   *)
(* a match is <<i, j, similarity>> and best_match 0 stands for None.       *)
(***************************************************************************)
\* the loop over clauses_b from position j on; the result is best_match
RECURSIVE ScanB(_, _, _, _, _, _)
RECURSIVE ScanScore(_, _, _, _, _, _, _)
\* ScanScore without the floor similarity > 0.2: any resemblance makes a match
ScanScoreNoFloor(clause_a, clauses_b, used_b, j, best_match, best_similarity, similarity) ==
    IF FracLess(best_similarity, similarity)
    THEN ScanB(clause_a, clauses_b, used_b, j + 1, j, similarity)
    ELSE ScanB(clause_a, clauses_b, used_b, j + 1, best_match, best_similarity)

\* ScanB without the match by number: only the weighted similarity decides
RECURSIVE ScanByText(_, _, _, _, _, _)
RECURSIVE ScanByTextScore(_, _, _, _, _, _, _)
ScanByTextScore(clause_a, clauses_b, used_b, j, best_match, best_similarity, similarity) ==
    IF FracLess(best_similarity, similarity) /\ FracLess(MatchFloor, similarity)
    THEN ScanByText(clause_a, clauses_b, used_b, j + 1, j, similarity)
    ELSE ScanByText(clause_a, clauses_b, used_b, j + 1, best_match, best_similarity)

ScanByText(clause_a, clauses_b, used_b, j, best_match, best_similarity) ==
    IF j > Len(clauses_b) THEN best_match
    ELSE IF j \in used_b
    THEN ScanByText(clause_a, clauses_b, used_b, j + 1, best_match, best_similarity)
    ELSE ScanByTextScore(clause_a, clauses_b, used_b, j, best_match, best_similarity,
                         FracHalfSum(calculate_similarity(clause_a.title,
                                                          clauses_b[j].title),
                                     calculate_similarity(clause_a.content,
                                                          clauses_b[j].content)))

\* ScanScore with >= for > best_similarity: on a tie the later clause of B wins
ScanScoreLastTie(clause_a, clauses_b, used_b, j, best_match, best_similarity, similarity) ==
    IF ~FracLess(similarity, best_similarity) /\ FracLess(MatchFloor, similarity)
    THEN ScanB(clause_a, clauses_b, used_b, j + 1, j, similarity)
    ELSE ScanB(clause_a, clauses_b, used_b, j + 1, best_match, best_similarity)

\* the end of the loop body, given the weighted similarity of clause_a and clauses_b[j]
ScanScore(clause_a, clauses_b, used_b, j, best_match, best_similarity, similarity) ==
    IF FracLess(best_similarity, similarity) /\ FracLess(MatchFloor, similarity)
    THEN ScanB(clause_a, clauses_b, used_b, j + 1, j, similarity)
    ELSE ScanB(clause_a, clauses_b, used_b, j + 1, best_match, best_similarity)

ScanB(clause_a, clauses_b, used_b, j, best_match, best_similarity) ==
    IF j > Len(clauses_b) THEN best_match
    ELSE IF j \in used_b
    THEN ScanB(clause_a, clauses_b, used_b, j + 1, best_match, best_similarity)
    ELSE IF /\ clause_a.number # <<>>
            /\ clauses_b[j].number # <<>>
            /\ clause_a.number = clauses_b[j].number
    THEN j
    ELSE ScanScore(clause_a, clauses_b, used_b, j, best_match, best_similarity,
                   FracHalfSum(calculate_similarity(clause_a.title, clauses_b[j].title),
                               calculate_similarity(clause_a.content,
                                                    clauses_b[j].content)))

\* the loop over clauses_a from position i on; the result is matches
RECURSIVE MatchFrom(_, _, _, _, _)
RECURSIVE MatchFound(_, _, _, _, _, _)
\* MatchFound without used_b.add(best_match): the matching MatchingOneToOne rules out
MatchFoundKeepsB(clauses_a, clauses_b, i, used_b, matches, best_match) ==
    IF best_match # 0
    THEN MatchFrom(clauses_a, clauses_b, i + 1, used_b,
                   Append(matches,
                          <<i, best_match,
                            calculate_similarity(clauses_a[i].content,
                                                 clauses_b[best_match].content)>>))
    ELSE MatchFrom(clauses_a, clauses_b, i + 1, used_b, matches)

\* MatchFound with the weighted score of titles and contents stored in the match
MatchFoundWeighted(clauses_a, clauses_b, i, used_b, matches, best_match) ==
    IF best_match # 0
    THEN MatchFrom(clauses_a, clauses_b, i + 1, used_b \cup {best_match},
                   Append(matches,
                          <<i, best_match,
                            FracHalfSum(calculate_similarity(clauses_a[i].title,
                                                             clauses_b[best_match].title),
                                        calculate_similarity(clauses_a[i].content,
                                                             clauses_b[best_match].content))>>))
    ELSE MatchFrom(clauses_a, clauses_b, i + 1, used_b, matches)

\* the end of the loop body, given best_match
MatchFound(clauses_a, clauses_b, i, used_b, matches, best_match) ==
    IF best_match # 0
    THEN MatchFrom(clauses_a, clauses_b, i + 1, used_b \cup {best_match},
                   Append(matches,
                          <<i, best_match,
                            calculate_similarity(clauses_a[i].content,
                                                 clauses_b[best_match].content)>>))
    ELSE MatchFrom(clauses_a, clauses_b, i + 1, used_b, matches)

MatchFrom(clauses_a, clauses_b, i, used_b, matches) ==
    IF i > Len(clauses_a) THEN matches
    ELSE MatchFound(clauses_a, clauses_b, i, used_b, matches,
                    ScanB(clauses_a[i], clauses_b, used_b, 1, 0, <<0, 1>>))

match_clauses(clauses_a, clauses_b) == MatchFrom(clauses_a, clauses_b, 1, {}, <<>>)

(***************************************************************************)
(* The numeric extractors.                                                 *)
(***************************************************************************)
\* the value extract_years, extract_days and extract_months return when nothing is found
NotFound == 999

\* the elements of a set of integers in increasing order
RECURSIVE SortedSeq(_)
SortedSeq(S) == IF S = {} THEN <<>> ELSE <<MinOf(S)>> \o SortedSeq(S \ {MinOf(S)})

\* the places of t where a match of (\d+)\s*<unit> can start: the first digit of
\* a run of digits that white space (or nothing) separates from the unit word
QuantityStarts(t, unit) ==
    {i \in 1..Len(t) :
        /\ IsDigit(t[i])
        /\ (i = 1 \/ ~IsDigit(t[i - 1]))
        /\ StartsAt(t, SkipSpaces(t, SkipDigits(t, i)), unit)}

\* int(matches[0]) for the match that starts at position i
QuantityAt(t, i) == ParseInt(SubSeq(t, i, SkipDigits(t, i) - 1))

\* int(matches[0]) if matches else 999
FirstMatch(t, starts) == IF starts = {} THEN NotFound ELSE QuantityAt(t, MinOf(starts))

\* re.findall(r'(\d+)\s*<unit>', text_lower), then the first match or 999
QuantityIn(text_lower, unit) == FirstMatch(text_lower, QuantityStarts(text_lower, unit))

FirstQuantity(text, unit) == QuantityIn(Lower(text), unit)

extract_years(text) == FirstQuantity(text, K.year)

extract_days(text) == FirstQuantity(text, K.day)

extract_months(text) == FirstQuantity(text, K.month)

\* the first position >= i that is neither a digit nor a comma
RECURSIVE SkipAmountChars(_, _)
SkipAmountChars(s, i) ==
    IF i <= Len(s) /\ (IsDigit(s[i]) \/ s[i] = ",") THEN SkipAmountChars(s, i + 1) ELSE i

\* the first position >= i that is not a word character
RECURSIVE SkipWord(_, _)
SkipWord(s, i) ==
    IF i <= Len(s) /\ IsWordChar(s[i]) THEN SkipWord(s, i + 1) ELSE i

\* whether (?:\.\d{2})? matches two decimals at position stop
HasDecimals(text, stop) ==
    /\ stop + 2 <= Len(text)
    /\ text[stop] = "."
    /\ IsDigit(text[stop + 1])
    /\ IsDigit(text[stop + 2])

\* the group of the match whose [\d,]+ part is text[at..stop-1]:
\* [digits: the group without its commas and decimals, cents: the decimals, dec: has decimals]
DollarGroup(text, at, stop, dec) ==
    [digits |-> SelectSeq(SubSeq(text, at, stop - 1), IsDigit),
     dec    |-> dec,
     cents  |-> IF dec THEN ParseInt(SubSeq(text, stop + 1, stop + 2)) ELSE 0]

DollarSpan(text, at, stop) == DollarGroup(text, at, stop, HasDecimals(text, stop))

DollarAt(text, at) == DollarSpan(text, at, SkipAmountChars(text, at))

DollarGroups(text, ps) == [k \in 1..Len(ps) |-> DollarAt(text, SkipSpaces(text, ps[k] + 1))]

\* re.findall(r'\$\s*([\d,]+(?:\.\d{2})?)', text): one entry per match, in order
DollarMatches(text) ==
    DollarGroups(text,
                 SortedSeq({p \in 1..Len(text) :
                               /\ text[p] = "$"
                               /\ SkipAmountChars(text, SkipSpaces(text, p + 1))
                                      > SkipSpaces(text, p + 1)}))

\* the places of text_lower where a match of (\w+)\s+<word> can start
WordStarts(text_lower, word) ==
    {s \in 1..Len(text_lower) :
        /\ IsWordChar(text_lower[s])
        /\ (s = 1 \/ ~IsWordChar(text_lower[s - 1]))
        /\ SkipSpaces(text_lower, SkipWord(text_lower, s)) > SkipWord(text_lower, s)
        /\ StartsAt(text_lower, SkipSpaces(text_lower, SkipWord(text_lower, s)), word)}

FirstWord(text_lower, starts) ==
    IF starts = {} THEN <<>>
    ELSE SubSeq(text_lower, MinOf(starts), SkipWord(text_lower, MinOf(starts)) - 1)

\* re.search(rf'(\w+)\s+{word}', text_lower): group(1), or <<>> for no match
WordBefore(text_lower, word) == FirstWord(text_lower, WordStarts(text_lower, word))

\* word_to_num.get(word, 1)
WordNum(word) ==
    IF \E e \in WordToNum : e[1] = word
    THEN (CHOOSE e \in WordToNum : e[1] = word)[2]
    ELSE 1

\* what one entry of text_amounts appends, in cents, given the word found before it
WrittenAmount(text_lower, entry, num) ==
    IF Contains(text_lower, entry[1]) /\ num # <<>>
    THEN <<WordNum(num) * entry[2] * 100>>
    ELSE <<>>

\* the loop over text_amounts from entry k on: the amounts it appends, in cents
RECURSIVE WrittenAmounts(_, _)
WrittenAmounts(text_lower, k) ==
    IF k > Len(TextAmounts) THEN <<>>
    ELSE WrittenAmount(text_lower, TextAmounts[k], WordBefore(text_lower, TextAmounts[k][1]))
         \o WrittenAmounts(text_lower, k + 1)

\* the amounts of the matches of the dollar pattern; float('') raises ValueError
\* for a match made of commas only
AmountsOf(matches, written) ==
    IF \E k \in 1..Len(matches) : matches[k].digits = <<>> /\ ~matches[k].dec
    THEN [err |-> "ValueError", amounts |-> <<>>]
    ELSE [err |-> "",
          amounts |-> [k \in 1..Len(matches) |->
                           ParseInt(matches[k].digits) * 100 + matches[k].cents]
                      \o written]

\* extract_amounts: [err, amounts], the amounts in cents
extract_amounts(text) == AmountsOf(DollarMatches(text), WrittenAmounts(Lower(text), 1))

\* str.title() of a lower-case name
Title(s) ==
    [k \in 1..Len(s) |->
        IF k = 1 \/ s[k - 1] \notin (LowerSet \cup UpperSet)
        THEN UpperChar(s[k]) ELSE LowerChar(s[k])]

\* the first state of the list among those found
FirstState(hits) == IF hits = {} THEN <<>> ELSE Title(States[MinOf(hits)])

StateIn(text_lower) == FirstState({k \in 1..Len(States) : Contains(text_lower, States[k])})

\* extract_state: the first state of the list that the text mentions, or <<>>
extract_state(text) == StateIn(Lower(text))

\* the digits of n with a comma before every group of three
RECURSIVE Grouped(_)
Grouped(d) ==
    IF Len(d) <= 3 THEN d
    ELSE Grouped(SubSeq(d, 1, Len(d) - 3)) \o <<",">> \o SubSeq(d, Len(d) - 2, Len(d))

\* q + r / 100 rounded half to even
RoundHalfEven(q, r) == IF r > 50 \/ (r = 50 /\ q % 2 = 1) THEN q + 1 ELSE q

\* f"{amount:,.0f}" for an amount in cents: rounded half to even, grouped by thousands
FormatAmount(cents) == Grouped(IntToStr(RoundHalfEven(cents \div 100, cents % 100)))

(***************************************************************************)
(* detect_risk_patterns.  A rule gives Returned(severity, description),    *)
(* Raised(exception) or FallsThrough (the code goes on to the next rule).  *)
(***************************************************************************)
Returned(sev, desc) == [fired |-> TRUE, err |-> "", severity |-> sev, summary |-> desc]

Raised(e) == [fired |-> TRUE, err |-> e, severity |-> "", summary |-> <<>>]

FallsThrough == [fired |-> FALSE, err |-> "", severity |-> "", summary |-> <<>>]

FromTo(prefix, old, new, suffix) ==
    prefix \o IntToStr(old) \o D.to \o IntToStr(new) \o suffix

\* ConfidentialityChange without the tests against 999
ConfidentialityChangeUnguarded(old_years, new_years, old_months, new_months) ==
    IF new_years < old_years
    THEN IF (old_years - new_years) * 100 >= 50 * old_years
         THEN Returned("High", FromTo(D.conf_high, old_years, new_years, D.years))
         ELSE Returned("Medium", FromTo(D.conf_medium, old_years, new_years, D.years))
    ELSE IF new_months < old_months
    THEN Returned("Medium", FromTo(D.conf_medium, old_months, new_months, D.months))
    ELSE FallsThrough

\* ConfidentialityChange without the 50% tier: every reduction of the years is High
ConfidentialityChangeAllHigh(old_years, new_years, old_months, new_months) ==
    IF old_years # NotFound /\ new_years # NotFound /\ new_years < old_years
    THEN Returned("High", FromTo(D.conf_high, old_years, new_years, D.years))
    ELSE IF old_months # NotFound /\ new_months # NotFound /\ new_months < old_months
    THEN Returned("Medium", FromTo(D.conf_medium, old_months, new_months, D.months))
    ELSE FallsThrough

\* the comparisons of rule 1, given what the extractors found
ConfidentialityChange(old_years, new_years, old_months, new_months) ==
    IF old_years # NotFound /\ new_years # NotFound /\ new_years < old_years
    THEN IF (old_years - new_years) * 100 >= 50 * old_years
         THEN Returned("High", FromTo(D.conf_high, old_years, new_years, D.years))
         ELSE Returned("Medium", FromTo(D.conf_medium, old_years, new_years, D.years))
    ELSE IF old_months # NotFound /\ new_months # NotFound /\ new_months < old_months
    THEN Returned("Medium", FromTo(D.conf_medium, old_months, new_months, D.months))
    ELSE FallsThrough

\* 1. Confidentiality Period Changes
ConfidentialityRule(old_text, new_text, clause_title) ==
    IF ~(\/ Contains(Lower(clause_title), K.confidential)
         \/ Contains(Lower(old_text), K.confidential))
    THEN FallsThrough
    ELSE ConfidentialityChange(extract_years(old_text), extract_years(new_text),
                               extract_months(old_text), extract_months(new_text))

\* TerminationChange without the 20% floor: every smaller reduction is Medium
TerminationChangeNoFloor(old_days, new_days) ==
    IF old_days # NotFound /\ new_days # NotFound /\ new_days < old_days
    THEN IF (old_days - new_days) * 100 >= 40 * old_days
         THEN Returned("High", FromTo(D.term_high, old_days, new_days, D.days))
         ELSE Returned("Medium", FromTo(D.term_medium, old_days, new_days, D.days))
    ELSE FallsThrough

\* the comparisons of rule 2, given what the extractors found
TerminationChange(old_days, new_days) ==
    IF old_days # NotFound /\ new_days # NotFound /\ new_days < old_days
    THEN IF (old_days - new_days) * 100 >= 40 * old_days
         THEN Returned("High", FromTo(D.term_high, old_days, new_days, D.days))
         ELSE IF (old_days - new_days) * 100 >= 20 * old_days
         THEN Returned("Medium", FromTo(D.term_medium, old_days, new_days, D.days))
         ELSE FallsThrough
    ELSE FallsThrough

\* 2. Termination Notice Period Changes
TerminationRule(old_text, new_text, clause_title) ==
    IF ~(\/ Contains(Lower(clause_title), K.terminat)
         \/ Contains(Lower(old_text), K.terminat))
    THEN FallsThrough
    ELSE TerminationChange(extract_days(old_text), extract_days(new_text))

\* the payment deadline check that ends rule 3, given what the extractors found
DeadlineChange(old_days, new_days) ==
    IF /\ old_days # NotFound
       /\ new_days # NotFound
       /\ new_days < old_days
       /\ old_days - new_days >= 15
    THEN Returned("High", FromTo(D.deadline, old_days, new_days, D.days))
    ELSE FallsThrough

PaymentDeadline(old_text, new_text) ==
    DeadlineChange(extract_days(old_text), extract_days(new_text))

\* an increase from old to new cents; the division by old_amounts[0] raises when it is 0
\* (the amounts are floats in the code: the test increase_pct >= 25 is stated here on
\* the cents, which is the same test for amounts in whole dollars)
PaymentIncrease(old, new) ==
    IF old = 0 THEN Raised("ZeroDivisionError")
    ELSE Returned(IF (new - old) * 100 >= 25 * old THEN "High" ELSE "Medium",
                  D.pay_increased \o FormatAmount(old) \o D.to_dollar \o FormatAmount(new))

\* the comparisons of rule 3 on the lists of amounts
PaymentChange(old, new, old_text, new_text) ==
    IF old # <<>> /\ new # <<>> /\ new[1] > old[1]
    THEN PaymentIncrease(old[1], new[1])
    ELSE IF old # <<>> /\ new # <<>> /\ new[1] < old[1]
    THEN Returned("Low", D.pay_decreased)
    ELSE PaymentDeadline(old_text, new_text)

\* rule 3 once the amounts are extracted: an exception of extract_amounts goes up
PaymentExtracted(old_amounts, new_amounts, old_text, new_text) ==
    IF old_amounts.err # "" THEN Raised(old_amounts.err)
    ELSE IF new_amounts.err # "" THEN Raised(new_amounts.err)
    ELSE PaymentChange(old_amounts.amounts, new_amounts.amounts, old_text, new_text)

\* 3. Payment Amount Changes
PaymentRule(old_text, new_text, clause_title) ==
    IF ~(\/ Contains(Lower(clause_title), K.payment)
         \/ Contains(Lower(old_text), K.fee)
         \/ Contains(Lower(old_text), K.consideration))
    THEN FallsThrough
    ELSE PaymentExtracted(extract_amounts(old_text), extract_amounts(new_text),
                          old_text, new_text)

\* the comparisons of rule 4 on the lists of amounts
LiabilityCap(old, new) ==
    IF old # <<>> /\ new = <<>>
    THEN Returned("High", D.cap_removed)
    ELSE IF old # <<>> /\ new # <<>> /\ new[1] > old[1]
    THEN Returned("Medium", D.cap_increased)
    ELSE FallsThrough

LiabilityAmounts(old_amounts, new_amounts) ==
    IF old_amounts.err # "" THEN Raised(old_amounts.err)
    ELSE IF new_amounts.err # "" THEN Raised(new_amounts.err)
    ELSE LiabilityCap(old_amounts.amounts, new_amounts.amounts)

\* the keyword checks of rule 4, then the amounts
LiabilityWording(old_lower, new_lower, old_text, new_text) ==
    IF Contains(new_lower, K.unlimited) /\ ~Contains(old_lower, K.unlimited)
    THEN Returned("High", D.unlimited)
    ELSE IF Contains(old_lower, K.cap) /\ ~Contains(new_lower, K.cap)
    THEN Returned("High", D.cap_removed)
    ELSE LiabilityAmounts(extract_amounts(old_text), extract_amounts(new_text))

\* 4. Liability Cap Changes
LiabilityRule(old_text, new_text, clause_title) ==
    IF ~(\/ Contains(Lower(clause_title), K.liabilit)
         \/ Contains(Lower(clause_title), K.indemnif))
    THEN FallsThrough
    ELSE LiabilityWording(Lower(old_text), Lower(new_text), old_text, new_text)

\* the description of an added non-compete, given the years found in the new text
NonCompeteAdded(years) ==
    IF years # NotFound
    THEN Returned("High", D.noncompete_years \o IntToStr(years) \o D.years_paren)
    ELSE Returned("High", D.noncompete)

NonCompeteTitled(title_lower) ==
    \/ Contains(title_lower, K.noncompete_hyphen)
    \/ Contains(title_lower, K.non_compete)
    \/ Contains(title_lower, K.noncompete)

\* 5. Non-Compete Clause Detection
NonCompeteRule(old_text, new_text, clause_title) ==
    IF ~NonCompeteTitled(Lower(clause_title))
    THEN FallsThrough
    ELSE IF Contains(Lower(new_text), K.compete) /\ ~Contains(Lower(old_text), K.compete)
    THEN NonCompeteAdded(extract_years(new_text))
    ELSE FallsThrough

\* the comparison of rule 6, given the states found
LawChange(old_state, new_state) ==
    IF old_state # <<>> /\ new_state # <<>> /\ old_state # new_state
    THEN Returned("Medium", D.law \o old_state \o D.to \o new_state)
    ELSE FallsThrough

\* 6. Governing Law Changes
GoverningLawRule(old_text, new_text, clause_title) ==
    IF ~(\/ Contains(Lower(clause_title), K.governing_law)
         \/ Contains(Lower(old_text), K.governed_by))
    THEN FallsThrough
    ELSE LawChange(extract_state(old_text), extract_state(new_text))

DisputeChange(old_lower, new_lower) ==
    IF Contains(old_lower, K.arbitration) /\ Contains(new_lower, K.court)
    THEN Returned("Medium", D.to_litigation)
    ELSE IF Contains(old_lower, K.court) /\ Contains(new_lower, K.arbitration)
    THEN Returned("Medium", D.to_arbitration)
    ELSE FallsThrough

\* 7. Dispute Resolution Changes
DisputeRule(old_text, new_text, clause_title) ==
    IF ~(\/ Contains(Lower(clause_title), K.dispute)
         \/ Contains(Lower(old_text), K.arbitrat))
    THEN FallsThrough
    ELSE DisputeChange(Lower(old_text), Lower(new_text))

AttorneyFeesChange(old_lower, new_lower) ==
    IF ~(Contains(old_lower, K.attorney) \/ Contains(old_lower, K.legal_fee))
    THEN FallsThrough
    ELSE IF /\ Contains(old_lower, K.prevailing_party)
            /\ ~Contains(new_lower, K.prevailing_party)
    THEN Returned("Medium", D.fee_recovery)
    ELSE FallsThrough

\* 8. Attorney Fees Changes
AttorneyFeesRule(old_text, new_text, clause_title) ==
    AttorneyFeesChange(Lower(old_text), Lower(new_text))

\* the comparison of rule 9, given what the extractors found
TermChange(old_years, new_years) ==
    IF old_years # NotFound /\ new_years # NotFound /\ new_years > old_years
    THEN Returned("Medium", FromTo(D.term_extended, old_years, new_years, D.years))
    ELSE FallsThrough

TermTitled(title_lower) == Contains(title_lower, K.term) /\ ~Contains(title_lower, K.terminat)

\* 9. Agreement Term Changes
AgreementTermRule(old_text, new_text, clause_title) ==
    IF ~TermTitled(Lower(clause_title))
    THEN FallsThrough
    ELSE TermChange(extract_years(old_text), extract_years(new_text))

\* the list high_risk_keywords
HighRiskKeywords ==
    {K.confidentiality, K.indemnity, K.liability, K.intellectual_property,
     K.termination, K.noncompete_hyphen, K.arbitration, K.warranty, K.payment}

\* the similarity tiers of the fallback
SimilarityTier(similarity, is_high_risk_clause) ==
    IF FracLess(similarity, <<4, 10>>) /\ is_high_risk_clause
    THEN Returned("High", D.critical_significant)
    ELSE IF FracLess(similarity, <<6, 10>>) /\ is_high_risk_clause
    THEN Returned("Medium", D.critical_moderate)
    ELSE IF FracLess(similarity, <<5, 10>>)
    THEN Returned("Medium", D.significant)
    ELSE IF FracLess(similarity, <<8, 10>>)
    THEN Returned("Low", D.minor)
    ELSE Returned("Low", D.minimal)

IsHighRiskClause(title_lower) == \E keyword \in HighRiskKeywords : Contains(title_lower, keyword)

\* GENERAL SIMILARITY CHECKS: the fallback when no rule has returned
GeneralSimilarity(old_text, new_text, clause_title) ==
    SimilarityTier(calculate_similarity(old_text, new_text),
                   IsHighRiskClause(Lower(clause_title)))

\* the k-th specialised rule, in the order of the code
Rule(k, old_text, new_text, clause_title) ==
    CASE k = 1 -> ConfidentialityRule(old_text, new_text, clause_title)
      [] k = 2 -> TerminationRule(old_text, new_text, clause_title)
      [] k = 3 -> PaymentRule(old_text, new_text, clause_title)
      [] k = 4 -> LiabilityRule(old_text, new_text, clause_title)
      [] k = 5 -> NonCompeteRule(old_text, new_text, clause_title)
      [] k = 6 -> GoverningLawRule(old_text, new_text, clause_title)
      [] k = 7 -> DisputeRule(old_text, new_text, clause_title)
      [] k = 8 -> AttorneyFeesRule(old_text, new_text, clause_title)
      [] k = 9 -> AgreementTermRule(old_text, new_text, clause_title)

\* the rules from the k-th on, then the fallback: the first that returns or raises
RECURSIVE RuleChain(_, _, _, _)
RECURSIVE RuleOutcome(_, _, _, _, _)
\* RuleOutcome with the more severe of the rules that fire
SeverityRank(sev) == CASE sev = "High" -> 3 [] sev = "Medium" -> 2 [] sev = "Low" -> 1 [] OTHER -> 0

MoreSevere(r, rest) ==
    IF r.fired /\ (r.err # "" \/ SeverityRank(r.severity) >= SeverityRank(rest.severity))
    THEN r
    ELSE rest

RuleOutcomeMostSevere(k, old_text, new_text, clause_title, r) ==
    MoreSevere(r, RuleChain(k + 1, old_text, new_text, clause_title))

\* what follows rule k, given its outcome r
RuleOutcome(k, old_text, new_text, clause_title, r) ==
    IF r.fired THEN r ELSE RuleChain(k + 1, old_text, new_text, clause_title)

RuleChain(k, old_text, new_text, clause_title) ==
    IF k > 9 THEN GeneralSimilarity(old_text, new_text, clause_title)
    ELSE RuleOutcome(k, old_text, new_text, clause_title,
                     Rule(k, old_text, new_text, clause_title))

detect_risk_patterns(old_text, new_text, clause_title) ==
    RuleChain(1, old_text, new_text, clause_title)

(***************************************************************************)
(* The severity of unmatched clauses, and the risk score.                  *)
(***************************************************************************)
\* any(kw in title_lower or kw in content_lower for kw in keywords)
Mentions(title, content, keywords) ==
    \E kw \in keywords : Contains(Lower(title), kw) \/ Contains(Lower(content), kw)

determine_removal_severity(title, content) ==
    IF Mentions(title, content,
                {K.confidential, K.liability, K.indemnif, K.intellectual_property, K.warranty})
    THEN "High"
    ELSE IF Mentions(title, content, {K.termination, K.payment, K.dispute, K.governing_law})
    THEN "Medium"
    ELSE "Low"

determine_addition_severity(title, content) ==
    IF \/ Contains(Lower(title), K.noncompete_hyphen)
       \/ Contains(Lower(content), K.non_compete)
    THEN "High"
    ELSE IF Mentions(title, content,
                     {K.liability, K.indemnif, K.penalty, K.liquidated_damages})
    THEN "High"
    ELSE IF Mentions(title, content,
                     {K.confidential, K.termination, K.obligation, K.restriction})
    THEN "Medium"
    ELSE "Low"

\* the dictionary base_points
BasePointsHigh == 18

BasePointsMedium == 10

BasePointsLow == 3

MaxRiskScore == 100

\* SummaryPoints looking for 'noncompete' where the descriptions say 'non-compete'
SummaryPointsUnhyphenated(summary_lower) ==
    (IF /\ Contains(summary_lower, K.confidentiality_period)
        /\ Contains(summary_lower, K.reduced) THEN 15 ELSE 0)
    + (IF Contains(summary_lower, K.unlimited_liability) THEN 12 ELSE 0)
    + (IF Contains(summary_lower, K.noncompete) THEN 12 ELSE 0)
    + (IF /\ Contains(summary_lower, K.termination)
          /\ Contains(summary_lower, K.reduced) THEN 10 ELSE 0)

\* the points the second loop of calculate_refined_risk_score adds for a summary
SummaryPoints(summary_lower) ==
    (IF /\ Contains(summary_lower, K.confidentiality_period)
        /\ Contains(summary_lower, K.reduced) THEN 15 ELSE 0)
    + (IF Contains(summary_lower, K.unlimited_liability) THEN 12 ELSE 0)
    + (IF Contains(summary_lower, K.noncompete_hyphen) THEN 12 ELSE 0)
    + (IF /\ Contains(summary_lower, K.termination)
          /\ Contains(summary_lower, K.reduced) THEN 10 ELSE 0)

Multipliers(diff) == SummaryPoints(Lower(diff.summary))

RECURSIVE SumMultipliers(_, _)
SumMultipliers(diffs, k) ==
    IF k > Len(diffs) THEN 0 ELSE Multipliers(diffs[k]) + SumMultipliers(diffs, k + 1)

\* total_risk before the cap
TotalRisk(risk_counters, diffs) ==
    BasePointsHigh * risk_counters.High
    + BasePointsMedium * risk_counters.Medium
    + BasePointsLow * risk_counters.Low
    + SumMultipliers(diffs, 1)

\* Capped without the cap: the score RiskScoreInRange rules out
Uncapped(total_risk) == total_risk

\* Capped with a score that wraps around past 100
Wrapped(total_risk) == total_risk % (MaxRiskScore + 1)

\* min(total_risk, 100)
Capped(total_risk) == IF total_risk < MaxRiskScore THEN total_risk ELSE MaxRiskScore

calculate_refined_risk_score(risk_counters, diffs) == Capped(TotalRisk(risk_counters, diffs))

(***************************************************************************)
(* generate_diff_report.                                                   *)
(***************************************************************************)
\* round(n / d, 0) rounded half to even, from the quotient q and the remainder r
RoundQuotient(q, r, d) == IF 2 * r > d \/ (2 * r = d /\ q % 2 = 1) THEN q + 1 ELSE q

\* round(similarity * 100, 1), in tenths
Confidence(similarity) ==
    RoundQuotient((1000 * similarity[1]) \div similarity[2],
                  (1000 * similarity[1]) % similarity[2], similarity[2])

\* x or y
OrElse(x, y) == IF x # <<>> THEN x ELSE y

DiffEntry(clause, type, summary, oldText, newText, severity, confidence) ==
    [clause |-> clause, type |-> type, summary |-> summary, oldText |-> oldText,
     newText |-> newText, severity |-> severity, explanation |-> <<>>,
     confidence |-> confidence]

\* the diff appended for the matched pair clause_a, clause_b, given risk_analysis
ModifiedEntry(clause_a, clause_b, idx_a, similarity, risk_analysis) ==
    DiffEntry(OrElse(clause_a.title, OrElse(clause_b.title, D.Clause \o IntToStr(idx_a))),
              "Modified", risk_analysis.summary,
              Strip(Truncate(clause_a.content, MaxTextLen)),
              Strip(Truncate(clause_b.content, MaxTextLen)),
              risk_analysis.severity, Confidence(similarity))

\* the loop over matches from the k-th on: [err, diffs]; an exception of
\* detect_risk_patterns ends the loop and the call
RECURSIVE ModifiedDiffs(_, _, _, _, _)
RECURSIVE ModifiedAnalysed(_, _, _, _, _, _)
RECURSIVE ModifiedPair(_, _, _, _, _, _, _)
\* the end of the loop body, given risk_analysis
ModifiedAnalysed(clauses_a, clauses_b, matches, k, diffs, risk_analysis) ==
    IF risk_analysis.err # "" THEN [err |-> risk_analysis.err, diffs |-> diffs]
    ELSE ModifiedDiffs(clauses_a, clauses_b, matches, k + 1,
                       Append(diffs,
                              ModifiedEntry(clauses_a[matches[k][1]],
                                            clauses_b[matches[k][2]],
                                            matches[k][1], matches[k][3],
                                            risk_analysis)))

\* the loop body for the pair clause_a, clause_b of similarity matches[k][3]
ModifiedPair(clauses_a, clauses_b, matches, k, diffs, clause_a, clause_b) ==
    IF ~FracLess(matches[k][3], MaterialThreshold)
    THEN ModifiedDiffs(clauses_a, clauses_b, matches, k + 1, diffs)
    ELSE ModifiedAnalysed(clauses_a, clauses_b, matches, k, diffs,
                          detect_risk_patterns(clause_a.content, clause_b.content,
                                               OrElse(clause_a.title, clause_b.title)))

ModifiedDiffs(clauses_a, clauses_b, matches, k, diffs) ==
    IF k > Len(matches) THEN [err |-> "", diffs |-> diffs]
    ELSE ModifiedPair(clauses_a, clauses_b, matches, k, diffs,
                      clauses_a[matches[k][1]], clauses_b[matches[k][2]])

\* HasContent without the test: blank clauses would be reported
AnyContent(clause) == TRUE

\* if clause['content'].strip(): whether an unmatched clause is reported
HasContent(clause) == Strip(clause.content) # <<>>

\* the diff of a clause of A that is in no match
RemovedEntry(clause, i) ==
    DiffEntry(OrElse(clause.title, D.Clause \o IntToStr(i)), "Removed", D.removed,
              Strip(Truncate(clause.content, MaxTextLen)), <<>>,
              determine_removal_severity(clause.title, clause.content), 1000)

\* the loop over clauses_a from the i-th on: the Removed diffs
RECURSIVE RemovedDiffs(_, _, _)
RemovedDiffs(clauses_a, matched_a, i) ==
    IF i > Len(clauses_a) THEN <<>>
    ELSE (IF i \notin matched_a /\ HasContent(clauses_a[i])
          THEN <<RemovedEntry(clauses_a[i], i)>>
          ELSE <<>>)
         \o RemovedDiffs(clauses_a, matched_a, i + 1)

\* the diff of a clause of B that is in no match
AddedEntry(clause, i) ==
    DiffEntry(OrElse(clause.title, D.New_Clause \o IntToStr(i)), "Added", D.added,
              <<>>, Strip(Truncate(clause.content, MaxTextLen)),
              determine_addition_severity(clause.title, clause.content), 1000)

\* the loop over clauses_b from the i-th on: the Added diffs
RECURSIVE AddedDiffs(_, _, _)
AddedDiffs(clauses_b, matched_b, i) ==
    IF i > Len(clauses_b) THEN <<>>
    ELSE (IF i \notin matched_b /\ HasContent(clauses_b[i])
          THEN <<AddedEntry(clauses_b[i], i)>>
          ELSE <<>>)
         \o AddedDiffs(clauses_b, matched_b, i + 1)

\* risk_counters once every diff is counted
RiskCounters(diffs) ==
    [s \in {"High", "Medium", "Low"} |->
        Cardinality({k \in 1..Len(diffs) : diffs[k].severity = s})]

\* the tier of the verdict sentence of generate_summary_and_verdict
Verdict(risk_score) ==
    IF risk_score >= 75 THEN "significantly higher risk"
    ELSE IF risk_score >= 50 THEN "moderate to high risks"
    ELSE IF risk_score >= 30 THEN "notable differences"
    ELSE IF risk_score >= 15 THEN "minor to moderate differences"
    ELSE "substantially similar"

\* the report, with the clauses and matches it was built from:
\* [err, clauses_a, clauses_b, matches, diffs, riskScore, verdict]
Report(err, clauses_a, clauses_b, matches, diffs, risk_score, verdict) ==
    [err |-> err, clauses_a |-> clauses_a, clauses_b |-> clauses_b, matches |-> matches,
     diffs |-> diffs, riskScore |-> risk_score, verdict |-> verdict]

\* the end of generate_diff_report, from the risk score on
ScoredReport(clauses_a, clauses_b, matches, diffs, risk_score) ==
    Report("", clauses_a, clauses_b, matches, diffs, risk_score, Verdict(risk_score))

ReportOfDiffs(clauses_a, clauses_b, matches, diffs) ==
    ScoredReport(clauses_a, clauses_b, matches, diffs,
                 calculate_refined_risk_score(RiskCounters(diffs), diffs))

\* generate_diff_report after the loop over the matches: an exception raised in
\* the loop leaves no report, otherwise the Removed and the Added diffs follow
ReportOfModified(clauses_a, clauses_b, matches, modified) ==
    IF modified.err # ""
    THEN Report(modified.err, clauses_a, clauses_b, matches, <<>>, 0, "")
    ELSE ReportOfDiffs(clauses_a, clauses_b, matches,
                       modified.diffs
                       \o RemovedDiffs(clauses_a,
                                       {matches[k][1] : k \in 1..Len(matches)}, 1)
                       \o AddedDiffs(clauses_b,
                                     {matches[k][2] : k \in 1..Len(matches)}, 1))

ReportOfMatches(clauses_a, clauses_b, matches) ==
    ReportOfModified(clauses_a, clauses_b, matches,
                     ModifiedDiffs(clauses_a, clauses_b, matches, 1, <<>>))

ReportOfClauses(clauses_a, clauses_b) ==
    ReportOfMatches(clauses_a, clauses_b, match_clauses(clauses_a, clauses_b))

generate_diff_report(text_a, text_b) ==
    ReportOfClauses(segment_clauses(text_a), segment_clauses(text_b))

(***************************************************************************)
(* The inputs of the specifications.                                       *)
(***************************************************************************)
\* '\n'.join(lines)
RECURSIVE JoinLines(_)
JoinLines(lines) ==
    IF lines = <<>> THEN <<>>
    ELSE IF Len(lines) = 1 THEN lines[1]
    ELSE lines[1] \o <<"\n">> \o JoinLines(Tail(lines))

\* the most clauses (heading line, body line) of a generated document
MaxClauses == 3

L_secrecy == <<"1","."," ","S","E","C","R","E","C","Y">>

L_fees == <<"2","."," ","F","E","E","S">>

L_warranty == <<"W","A","R","R","A","N","T","Y">>

L_hold == <<"H","O","L","D",":">>

L_conf5 == <<"c","o","n","f","i","d","e","n","t","i","a","l"," ","5"," ","y","e","a","r","s">>

L_conf1 == <<"c","o","n","f","i","d","e","n","t","i","a","l"," ","1"," ","y","e","a","r">>

L_fee10 == <<"f","e","e"," ","$","1","0"," ","i","n"," ","3","0"," ","d","a","y","s">>

L_fee15 == <<"f","e","e"," ","$","1","5"," ","i","n"," ","1","5"," ","d","a","y","s">>

L_warranty_given == <<"w","a","r","r","a","n","t","y"," ","g","i","v","e","n">>

L_indemnify == <<"i","n","d","e","m","n","i","f","y"," ","u","s">>

L_1_confidentiality ==
    <<"1","."," ","C","O","N","F","I","D","E","N","T","I","A","L","I","T","Y">>

L_2_payment == <<"2","."," ","P","A","Y","M","E","N","T">>

L_protected_five ==
    <<"C","o","n","f","i","d","e","n","t","i","a","l"," ","i","n","f","o","r","m","a","t","i",
      "o","n"," ","s","h","a","l","l"," ","b","e"," ","p","r","o","t","e","c","t","e","d"," ",
      "f","o","r"," ","f","i","v","e"," ","(","5",")"," ","y","e","a","r","s",".">>

L_protected_one ==
    <<"C","o","n","f","i","d","e","n","t","i","a","l"," ","i","n","f","o","r","m","a","t","i",
      "o","n"," ","s","h","a","l","l"," ","b","e"," ","p","r","o","t","e","c","t","e","d"," ",
      "f","o","r"," ","o","n","e"," ","(","1",")"," ","y","e","a","r",".">>

L_fee_10000 ==
    <<"F","e","e"," ","o","f"," ","$","1","0",",","0","0","0"," ","w","i","t","h","i","n"," ",
      "3","0"," ","d","a","y","s",".">>

L_fee_15000 ==
    <<"F","e","e"," ","o","f"," ","$","1","5",",","0","0","0"," ","w","i","t","h","i","n"," ",
      "1","5"," ","d","a","y","s",".">>

L_indent == <<" "," "," "," ">>

T_blank == <<" ","\t">>

T_heading_only == <<"N","O","T","E","S",":">>

T_fee0 == <<"f","e","e"," ","o","f"," ","$","0">>

T_fee5 == <<"f","e","e"," ","o","f"," ","$","5">>

T_fee_commas == <<"f","e","e"," ","o","f"," ","$",",">>

\* the contracts of test_full_report_generation, the periods written "five (5) years"
\* and "one (1) year"
T_scenario_a ==
    JoinLines(<<<<>>, L_1_confidentiality, L_protected_five, <<>>, L_2_payment, L_fee_10000,
                L_indent>>)

T_scenario_b ==
    JoinLines(<<<<>>, L_1_confidentiality, L_protected_one, <<>>, L_2_payment, L_fee_15000,
                L_indent>>)

\* a new text that keeps the first clause of the old documents and changes the second
T_fee_changed == JoinLines(<<L_secrecy, L_conf5, L_fees, L_fee15>>)

L_covenant == <<"C","O","V","E","N","A","N","T">>

L_non_compete == <<"n","o","n","-","c","o","m","p","e","t","e"," ","2"," ","y","e","a","r","s">>

\* a new text whose only clause restricts competition in its content, not in its title
T_covenant == JoinLines(<<L_covenant, L_non_compete>>)

L_1_fees == <<"1","."," ","F","E","E","S">>

L_2_secrecy == <<"2","."," ","S","E","C","R","E","C","Y">>

\* a new text whose clauses bear the numbers of the old clauses in the other order
T_renumbered == JoinLines(<<L_1_fees, L_fee15, L_2_secrecy, L_conf1>>)

\* the warranty clause of the old documents under another title
L_guarantee == <<"G","U","A","R","A","N","T","E","E">>

T_retitled == JoinLines(<<L_guarantee, L_warranty_given>>)

\* a document with body lines before the first heading, a capital line too short
\* for a heading, a heading without a body and a blank line inside a clause
L_intro == <<"i","n","t","r","o">>

L_abc == <<"A","B","C">>

L_terms == <<"T","E","R","M","S">>

L_more == <<"m","o","r","e">>

L_last == <<"l","a","s","t">>

T_policy ==
    JoinLines(<<L_intro, L_abc, L_terms, <<>>, L_fees, L_fee10, <<>>, L_more, T_heading_only,
                L_last>>)

\* the two one-line contracts of test_risk_score_calculation ('Major changes')
T_major_a ==
    <<"C","o","n","f","i","d","e","n","t","i","a","l","i","t","y"," ","f","o","r"," ","5"," ",
      "y","e","a","r","s",","," ","l","i","a","b","i","l","i","t","y"," ","c","a","p"," ","$",
      "1","0","0",",","0","0","0">>

T_major_b ==
    <<"C","o","n","f","i","d","e","n","t","i","a","l","i","t","y"," ","f","o","r"," ","1"," ",
      "y","e","a","r",","," ","u","n","l","i","m","i","t","e","d"," ","l","i","a","b","i","l",
      "i","t","y">>

\* the clauses the old documents are made of, as <<heading line, body line>>
BlocksA == <<<<L_secrecy, L_conf5>>, <<L_fees, L_fee10>>, <<L_warranty, L_warranty_given>>>>

\* the clauses the new documents are made of
BlocksB == <<<<L_secrecy, L_conf1>>, <<L_fees, L_fee15>>, <<L_hold, L_indemnify>>>>

\* the text of the clauses s[1], s[2], ... of blocks
DocumentOf(blocks, s) ==
    JoinLines([k \in 1..(2 * Len(s)) |-> blocks[s[(k + 1) \div 2]][2 - (k % 2)]])

\* the documents of at most n clauses taken from blocks, in any order
Documents(blocks, n) ==
    {DocumentOf(blocks, s) : s \in UNION {[1..m -> 1..Len(blocks)] : m \in 0..n}}

\* the documents of at most n clauses taken from blocks, in the order of blocks
OrderedDocuments(blocks, n) ==
    {DocumentOf(blocks, s) :
        s \in {t \in UNION {[1..m -> 1..Len(blocks)] : m \in 0..n} :
                  \A k \in 1..(Len(t) - 1) : t[k] <= t[k + 1]}}

\* texts that are no list of clauses: empty, blank, a lone heading, degenerate amounts
ExtraTexts ==
    {<<>>, T_blank, T_heading_only, T_fee0, T_fee5, T_fee_commas, T_scenario_a, T_scenario_b}

TextsA == Documents(BlocksA, MaxClauses) \cup ExtraTexts

TextsB ==
    OrderedDocuments(BlocksB, MaxClauses) \cup ExtraTexts
    \cup {T_fee_changed, T_covenant, T_renumbered}

\* pairs of an old and a new text that are compared with each other only
TextPairs ==
    {<<T_major_a, T_major_b>>,
     <<JoinLines(<<L_warranty, L_warranty_given>>), T_retitled>>,
     <<T_fee_changed, T_policy>>}

\* the arguments of detect_risk_patterns: a clause that states one quantity,
\* "for <n> <unit>s", or none
MaxQuantity == 6

Quantities == (1..MaxQuantity) \cup {15 * k : k \in 1..MaxQuantity}

W_for == <<"f","o","r"," ">>

W_a_while == <<"f","o","r"," ","a"," ","w","h","i","l","e">>

QuantityText(n, unit) == W_for \o IntToStr(n) \o <<" ">> \o unit \o <<"s">>

RiskTexts ==
    {QuantityText(n, unit) : n \in Quantities, unit \in {K.year, K.month, K.day}}
    \cup {W_a_while}

H_confidentiality == <<"C","O","N","F","I","D","E","N","T","I","A","L","I","T","Y">>

H_termination == <<"T","E","R","M","I","N","A","T","I","O","N">>

H_payment == <<"P","A","Y","M","E","N","T">>

H_term == <<"T","E","R","M">>

H_general == <<"G","E","N","E","R","A","L">>

RiskTitles == {H_confidentiality, H_termination, H_payment, H_term, H_general}

\* payment clauses: "fee $<a>" with or without a deadline " in <d> days"
W_fee == <<"f","e","e"," ","$">>

W_in == <<" ","i","n"," ">>

PaymentAmounts == {0, 100, 120, 125}

Deadlines == {15, 30}

PaymentText(amount, deadline) ==
    W_fee \o IntToStr(amount) \o W_in \o IntToStr(deadline) \o D.days

PaymentTexts ==
    {PaymentText(a, d) : a \in PaymentAmounts, d \in Deadlines}
    \cup {W_fee \o IntToStr(a) : a \in PaymentAmounts}
    \cup {W_a_while}

PaymentTitles == {H_payment, H_general}

\* liability clauses: a cap word, an amount, 'unlimited', and what else a clause may
\* mention (a fee, a confidentiality period)
L_cap_100 == <<"l","i","a","b","i","l","i","t","y"," ","c","a","p"," ","$","1","0","0">>

L_limit_100 == <<"l","i","a","b","i","l","i","t","y"," ","$","1","0","0">>

L_limit_200 == <<"l","i","a","b","i","l","i","t","y"," ","$","2","0","0">>

L_unlimited == <<"u","n","l","i","m","i","t","e","d"," ","l","i","a","b","i","l","i","t","y">>

L_applies == <<"l","i","a","b","i","l","i","t","y"," ","a","p","p","l","i","e","s">>

L_fee_cap_200 == <<"f","e","e"," ","c","a","p"," ","$","2","0","0">>

L_fee_unlimited_100 ==
    <<"u","n","l","i","m","i","t","e","d"," ","f","e","e"," ","$","1","0","0">>

L_fee_300 == <<"f","e","e"," ","$","3","0","0">>

L_conf_cap_3 ==
    <<"c","o","n","f","i","d","e","n","t","i","a","l"," ","c","a","p"," ","3"," ","y","e","a",
      "r","s">>

L_conf_2 == <<"c","o","n","f","i","d","e","n","t","i","a","l"," ","2"," ","y","e","a","r","s">>

H_liability == <<"L","I","A","B","I","L","I","T","Y">>

H_indemnification == <<"I","N","D","E","M","N","I","F","I","C","A","T","I","O","N">>

LiabilityTexts ==
    {L_cap_100, L_limit_100, L_limit_200, L_unlimited, L_applies,
     L_fee_cap_200, L_fee_unlimited_100, L_fee_300, L_conf_cap_3, L_conf_2}

LiabilityTitles == {H_liability, H_indemnification}

\* non-compete clauses: the restriction with a duration, without one, and absent
N_none == <<"n","o"," ","r","e","s","t","r","i","c","t","i","o","n">>

N_two_years ==
    <<"n","o","n","-","c","o","m","p","e","t","e"," ","f","o","r"," ","2"," ","y","e","a","r",
      "s">>

N_applies == <<"n","o","n","-","c","o","m","p","e","t","e"," ","a","p","p","l","i","e","s">>

N_shall_not == <<"s","h","a","l","l"," ","n","o","t"," ","c","o","m","p","e","t","e">>

H_non_compete == <<"N","O","N","-","C","O","M","P","E","T","E">>

H_covenants == <<"C","O","V","E","N","A","N","T","S">>

NonCompeteTexts == {N_none, N_two_years, N_applies, N_shall_not}

NonCompeteTitles == {H_non_compete, H_covenants}

\* clauses on the governing law, the forum and the fees of the dispute
G_texas_arbitration ==
    <<"g","o","v","e","r","n","e","d"," ","b","y"," ","T","e","x","a","s",","," ","a","r","b",
      "i","t","r","a","t","i","o","n">>

G_ohio_court ==
    <<"g","o","v","e","r","n","e","d"," ","b","y"," ","O","h","i","o",","," ","c","o","u","r",
      "t">>

G_arbitration_fees ==
    <<"a","r","b","i","t","r","a","t","i","o","n",","," ","a","t","t","o","r","n","e","y"," ",
      "f","e","e","s"," ","t","o"," ","t","h","e"," ","p","r","e","v","a","i","l","i","n","g",
      " ","p","a","r","t","y">>

G_court == <<"c","o","u","r","t">>

H_disputes == <<"D","I","S","P","U","T","E","S">>

DisputeTexts == {G_texas_arbitration, G_ohio_court, G_arbitration_fees, G_court}

DisputeTitles == {H_disputes, H_general}

(***************************************************************************)
(* The explanation collaborator of src/services/llm_explainer.py.  A       *)
(* confidence is in tenths of a percent, as the confidence of a diff.  The *)
(* fixed explanation and the two fixed suggestions of a template are       *)
(* abbreviated to the name of the template.                                *)
(***************************************************************************)
\* the keywords of the templates that the engine does not look for
KE ==
    [increased |-> <<"i","n","c","r","e","a","s","e","d">>,
     removed |-> <<"r","e","m","o","v","e","d">>,
     litigation |-> <<"l","i","t","i","g","a","t","i","o","n">>,
     agreement_term |-> <<"a","g","r","e","e","m","e","n","t"," ","t","e","r","m">>,
     extended |-> <<"e","x","t","e","n","d","e","d">>]

\* the templates in the order of their tests, and the confidence of each
Templates ==
    <<[name |-> "confidentiality period reduced", confidence |-> 950],
      [name |-> "termination notice reduced", confidence |-> 920],
      [name |-> "payment increased", confidence |-> 950],
      [name |-> "liability unlimited or removed", confidence |-> 980],
      [name |-> "non-compete", confidence |-> 960],
      [name |-> "governing law", confidence |-> 880],
      [name |-> "dispute resolution", confidence |-> 850],
      [name |-> "attorney fees", confidence |-> 820],
      [name |-> "agreement term extended", confidence |-> 800],
      [name |-> "confidential text", confidence |-> 800],
      [name |-> "payment text", confidence |-> 850],
      [name |-> "liability text", confidence |-> 880],
      [name |-> "termination text", confidence |-> 820],
      [name |-> "severity High", confidence |-> 750],
      [name |-> "severity Medium", confidence |-> 700],
      [name |-> "default", confidence |-> 650]>>

\* the test of the k-th template
TemplateTest(k, old_lower, new_lower, severity, summary_lower) ==
    CASE k = 1 -> /\ Contains(summary_lower, K.confidentiality_period)
                  /\ Contains(summary_lower, K.reduced)
      [] k = 2 -> /\ Contains(summary_lower, K.termination)
                  /\ Contains(summary_lower, K.reduced)
      [] k = 3 -> /\ Contains(summary_lower, K.payment)
                  /\ Contains(summary_lower, KE.increased)
      [] k = 4 -> /\ Contains(summary_lower, K.liability)
                  /\ \/ Contains(summary_lower, K.unlimited)
                     \/ Contains(summary_lower, KE.removed)
      [] k = 5 -> Contains(summary_lower, K.noncompete_hyphen)
      [] k = 6 -> Contains(summary_lower, K.governing_law)
      [] k = 7 -> \/ Contains(summary_lower, K.dispute)
                  \/ Contains(summary_lower, K.arbitration)
                  \/ Contains(summary_lower, KE.litigation)
      [] k = 8 -> \/ Contains(summary_lower, K.attorney)
                  \/ Contains(summary_lower, K.fee)
      [] k = 9 -> /\ Contains(summary_lower, KE.agreement_term)
                  /\ Contains(summary_lower, KE.extended)
      [] k = 10 -> \/ Contains(old_lower, K.confidential)
                   \/ Contains(new_lower, K.confidential)
      [] k = 11 -> \/ Contains(old_lower, K.payment)
                   \/ Contains(old_lower, K.fee)
      [] k = 12 -> \/ Contains(old_lower, K.liabilit)
                   \/ Contains(old_lower, K.indemnif)
      [] k = 13 -> Contains(old_lower, K.terminat)
      [] k = 14 -> severity = "High"
      [] k = 15 -> severity = "Medium"
      [] OTHER -> TRUE

\* what a template returns
TemplateData(template) ==
    [explanation |-> <<template.name>>,
     suggestions |-> <<template.name, template.name>>,
     confidence |-> template.confidence]

\* the first template from the k-th on whose test passes
RECURSIVE TemplateFrom(_, _, _, _, _)
TemplateFrom(k, old_lower, new_lower, severity, summary_lower) ==
    IF TemplateTest(k, old_lower, new_lower, severity, summary_lower)
    THEN TemplateData(Templates[k])
    ELSE TemplateFrom(k + 1, old_lower, new_lower, severity, summary_lower)

get_template_explanation(old_text, new_text, severity, summary) ==
    TemplateFrom(1, Lower(old_text), Lower(new_text), severity, Lower(summary))

\* what the hosted model does when it is called for a diff: there is no API
\* key, the call or the parsing of its answer raises, or the answer is a JSON
\* object; an answer without a key has the default of the key
LlmCall(kind, explanation, confidence, numeric) ==
    [kind |-> kind, explanation |-> explanation, confidence |-> confidence,
     numeric |-> numeric]

NoKey == LlmCall("no key", <<>>, 0, TRUE)

CallFailed == LlmCall("failed", <<>>, 0, TRUE)

\* an answer with a confidence that is a number
Answered(explanation, confidence) == LlmCall("answered", explanation, confidence, TRUE)

\* an answer with a confidence that is a string, such as "90%"
AnsweredInWords(explanation) == LlmCall("answered", explanation, 0, FALSE)

get_llm_explanation(old_text, new_text, severity, summary, call) ==
    IF call.kind = "answered"
    THEN [explanation |-> call.explanation,
          suggestions |-> <<"first", "second">>,
          confidence |-> call.confidence,
          numeric |-> call.numeric]
    ELSE get_template_explanation(old_text, new_text, severity, summary)

\* the diff with the explanation and the suggestions merged into it
Merged(diff, explanation_data) ==
    [clause |-> diff.clause, type |-> diff.type, summary |-> diff.summary,
     oldText |-> diff.oldText, newText |-> diff.newText, severity |-> diff.severity,
     explanation |-> explanation_data.explanation,
     confidence |-> diff.confidence,
     suggestions |-> explanation_data.suggestions]

\* a confidence that is a string is true and cannot be compared with a float
IsNumber(explanation_data) ==
    "numeric" \in DOMAIN explanation_data => explanation_data.numeric

\* one turn of the loop: [err, diff]
EnhanceDiff(diff, explanation_data) ==
    IF ~IsNumber(explanation_data)
    THEN [err |-> "TypeError", diff |-> Merged(diff, explanation_data)]
    ELSE IF /\ explanation_data.confidence # 0
            /\ explanation_data.confidence > diff.confidence
    THEN [err |-> "",
          diff |-> [Merged(diff, explanation_data)
                        EXCEPT !.confidence = explanation_data.confidence]]
    ELSE [err |-> "", diff |-> Merged(diff, explanation_data)]

\* the call of the hosted model for the k-th diff
CallFor(calls, k) == calls[((k - 1) % Len(calls)) + 1]

ExplanationData(diff, use_llm, call) ==
    IF use_llm
    THEN get_llm_explanation(diff.oldText, diff.newText, diff.severity, diff.summary, call)
    ELSE get_template_explanation(diff.oldText, diff.newText, diff.severity, diff.summary)

\* the loop from the k-th diff on: [err, diffs]; the diffs are modified in
\* place, so that an exception leaves the diffs as they are when it is raised
RECURSIVE EnhanceFrom(_, _, _, _)
RECURSIVE Enhanced(_, _, _, _, _)
Enhanced(k, diffs, use_llm, calls, enhanced) ==
    IF enhanced.err # ""
    THEN [err |-> enhanced.err, diffs |-> [diffs EXCEPT ![k] = enhanced.diff]]
    ELSE EnhanceFrom(k + 1, [diffs EXCEPT ![k] = enhanced.diff], use_llm, calls)

EnhanceFrom(k, diffs, use_llm, calls) ==
    IF k > Len(diffs)
    THEN [err |-> "", diffs |-> diffs]
    ELSE Enhanced(k, diffs, use_llm, calls,
                  EnhanceDiff(diffs[k], ExplanationData(diffs[k], use_llm, CallFor(calls, k))))

enhance_diffs_with_explanations(diffs, use_llm, calls) ==
    EnhanceFrom(1, diffs, use_llm, calls)

(***************************************************************************)
(* The /compare handler of src/main.py and the tables of                   *)
(* src/services/database.py.  The calls of the database client are         *)
(* synchronous, so a request runs without interruption from its start to   *)
(* the reading of the uploaded files (await fileA.read()) and from there   *)
(* to its response.                                                        *)
(***************************************************************************)
\* the row of a user: reset_due says that reset_date is before today
UserRow(used, limit, reset_due) ==
    [comparisons_used |-> used, comparisons_limit |-> limit, reset_due |-> reset_due]

NoUser == UserRow(0, 0, FALSE)

Usage(used, limit) == [used |-> used, limit |-> limit]

\* get_usage: [row, usage]; the first call after reset_date resets the row
get_usage(row) ==
    IF row.reset_due
    THEN [row |-> UserRow(0, row.comparisons_limit, FALSE),
          usage |-> Usage(0, row.comparisons_limit)]
    ELSE [row |-> row, usage |-> Usage(row.comparisons_used, row.comparisons_limit)]

\* the row with the count that increment_usage writes, given what get_usage read
Incremented(read) == [read.row EXCEPT !.comparisons_used = read.usage.used + 1]

\* increment_usage: [row, usage]
increment_usage(row) == get_usage(Incremented(get_usage(row)))

\* the ticks of the clock in a second
TicksPerSecond == 2

\* f"rpt-{datetime.utcnow().strftime('%Y%m%d%H%M%S')}": the time cut to the second
ReportId(now) == <<"r","p","t","-">> \o IntToStr(now \div TicksPerSecond)

\* the row that save_report inserts
ReportRow(response) ==
    [user_id |-> "user", report_id |-> response.reportId,
     risk_score |-> response.riskScore, diffs |-> response.diffs]

\* get_report_by_id: the rows that the query selects
ReportsById(table, report_id) ==
    {k \in 1..Len(table) : table[k].report_id = report_id /\ table[k].user_id = "user"}

\* what a request submits and what its collaborators do: the uploaded files
\* and the texts extracted from them, the two form fields, the outcome of
\* compare_contracts_with_ai, the outcomes of the hosted model for the diffs,
\* and whether the database calls succeed
Form(upload, a, b, use_llm, use_ai_full, ai, calls, db) ==
    [upload |-> upload, text_a |-> a, text_b |-> b, use_llm |-> use_llm,
     use_ai_full |-> use_ai_full, ai |-> ai, calls |-> calls, db |-> db]

Database(usage, save, increment) == [usage |-> usage, save |-> save, increment |-> increment]

\* the response of a request; an HTTP error has a status only
Response(status, reportId, report, diffs, usage, comparison_method, llmUsed) ==
    [status |-> status, reportId |-> reportId, riskScore |-> report.riskScore,
     verdict |-> report.verdict, diffs |-> diffs, usage |-> usage,
     comparisonMethod |-> comparison_method, llmUsed |-> llmUsed]

HTTPException(status) ==
    [status |-> status, reportId |-> <<>>, riskScore |-> 0, verdict |-> "",
     diffs |-> <<>>, usage |-> Usage(0, 0), comparisonMethod |-> "", llmUsed |-> FALSE]

NoResponse == HTTPException(0)

\* what the hosted model returns for two contracts is its own; it stands here
\* as a report without diffs
AiReport == [err |-> "", diffs |-> <<>>, riskScore |-> 0, verdict |-> "AI"]

\* the validation of the files read and of the extracted texts: the status of
\* the error, or 200
Validated(f) ==
    CASE f.upload = "too large" -> 413
      [] f.upload = "unreadable" -> 400
      [] Strip(f.text_a) = <<>> -> 400
      [] Strip(f.text_b) = <<>> -> 400
      [] OTHER -> 200

\* the comparison: [err, report, diffs, comparison_method]
Comparison(err, rep, diffs, comparison_method) ==
    [err |-> err, report |-> rep, diffs |-> diffs, comparison_method |-> comparison_method]

\* the rule-based report with the explanations of the hosted model; when the
\* step raises, the diffs stay as the step left them
Explained(rep, enhanced) ==
    Comparison("", rep, enhanced.diffs,
               IF enhanced.err = "" THEN "Rule-Based + AI Explanations" ELSE "Rule-Based")

\* the rule-based comparison, as the fallback of the hosted model or by itself
RuleBased(f, rep) ==
    IF rep.err # ""
    THEN Comparison(rep.err, rep, <<>>, "")
    ELSE IF f.use_ai_full
    THEN Comparison("", rep, rep.diffs, "Rule-Based (AI Fallback)")
    ELSE IF f.use_llm
    THEN Explained(rep, enhance_diffs_with_explanations(rep.diffs, TRUE, f.calls))
    ELSE Comparison("", rep, rep.diffs, "Rule-Based")

Compared(f) ==
    IF f.use_ai_full /\ f.ai = "answered"
    THEN Comparison("", AiReport, AiReport.diffs, "AI-Powered Semantic Analysis")
    ELSE RuleBased(f, generate_diff_report(f.text_a, f.text_b))

\* the response built from the comparison at the time now
Built(f, usage, now, compared) ==
    IF compared.err # ""
    THEN HTTPException(500)
    ELSE Response(200, ReportId(now), compared.report, compared.diffs, usage,
                  compared.comparison_method, f.use_llm \/ f.use_ai_full)

\* the handler from the reading of the files on: the response before the
\* database calls
Handled(f, usage, now) ==
    IF Validated(f) # 200
    THEN HTTPException(Validated(f))
    ELSE Built(f, usage, now, Compared(f))

\* the families of arguments: the texts of a family are paired with each other
\* under each of its titles
RiskFamilies ==
    {[texts |-> RiskTexts, titles |-> RiskTitles],
     [texts |-> PaymentTexts, titles |-> PaymentTitles],
     [texts |-> LiabilityTexts, titles |-> LiabilityTitles],
     [texts |-> NonCompeteTexts, titles |-> NonCompeteTitles],
     [texts |-> DisputeTexts, titles |-> DisputeTitles]}

\* the diffs of a report: one Modified diff for each description that earns
\* points and one that earns none, a Removed and an Added diff
MaxDiffs == 5

ScoreDiffs ==
    {DiffEntry(H_confidentiality, "Modified", FromTo(D.conf_high, 5, 1, D.years),
               <<>>, <<>>, "High", 500),
     DiffEntry(H_liability, "Modified", D.unlimited, <<>>, <<>>, "High", 500),
     DiffEntry(H_non_compete, "Modified", D.noncompete, <<>>, <<>>, "High", 500),
     DiffEntry(H_termination, "Modified", FromTo(D.term_medium, 5, 4, D.days),
               <<>>, <<>>, "Medium", 500),
     DiffEntry(H_general, "Removed", D.removed, <<>>, <<>>, "Low", 1000),
     DiffEntry(H_termination, "Added", D.added, <<>>, <<>>, "Medium", 1000)}

\* the arguments of the extractors: a phrase that states the quantity n once, as
\* "<n> <unit>s" or as "<word> (<n>) <unit>s", or a phrase that states none
MaxNumber == 5

Numbers == (1..MaxNumber) \cup {10 * k : k \in 1..MaxNumber}

UnitWords ==
    <<<<"o","n","e">>, <<"t","w","o">>, <<"t","h","r","e","e">>, <<"f","o","u","r">>,
      <<"f","i","v","e">>, <<"s","i","x">>, <<"s","e","v","e","n">>, <<"e","i","g","h","t">>,
      <<"n","i","n","e">>>>

TenWords ==
    <<<<"t","e","n">>, <<"t","w","e","n","t","y">>, <<"t","h","i","r","t","y">>,
      <<"f","o","r","t","y">>, <<"f","i","f","t","y">>, <<"s","i","x","t","y">>,
      <<"s","e","v","e","n","t","y">>, <<"e","i","g","h","t","y">>,
      <<"n","i","n","e","t","y">>>>

NumberWord(n) == IF n < 10 THEN UnitWords[n] ELSE TenWords[n \div 10]

P_term_of == <<"t","e","r","m"," ","o","f"," ">>

P_within == <<"w","i","t","h","i","n"," ">>

P_notice_of == <<"n","o","t","i","c","e"," ","o","f"," ">>

P_no_years == <<"n","o"," ","y","e","a","r","s"," ","m","e","n","t","i","o","n","e","d">>

P_no_days == <<"n","o"," ","d","a","y","s"," ","m","e","n","t","i","o","n","e","d">>

Prefixes == {P_term_of, P_within, P_notice_of}

Plural(n, unit) == IF n = 1 THEN unit ELSE unit \o <<"s">>

\* "5 years"
PlainForm(n, unit) == IntToStr(n) \o <<" ">> \o Plural(n, unit)

\* "five (5) years"
WordedForm(n, unit) ==
    NumberWord(n) \o <<" ", "(">> \o IntToStr(n) \o <<")", " ">> \o Plural(n, unit)

Phrase(text, form, unit, value) ==
    [text |-> text, form |-> form, unit |-> unit, value |-> value]

Phrases ==
    {Phrase(prefix \o PlainForm(n, unit), "plain", unit, n) :
        prefix \in Prefixes, n \in Numbers, unit \in {K.year, K.day}}
    \cup {Phrase(prefix \o WordedForm(n, unit), "worded", unit, n) :
        prefix \in Prefixes, n \in Numbers, unit \in {K.year, K.day}}
    \cup {Phrase(P_no_years, "none", K.year, NotFound),
          Phrase(P_no_days, "none", K.day, NotFound),
          Phrase(<<>>, "none", K.year, NotFound),
          Phrase(W_a_while, "none", K.day, NotFound)}

(***************************************************************************)
(* The state: one call of generate_diff_report, of detect_risk_patterns    *)
(* or of the extractors, from its arguments (pc = "start") to its result   *)
(* (pc = "done"); or a list of diffs that grows, with its risk score.      *)
(***************************************************************************)
VARIABLES
    pc,            \* "start" before the call, "done" after it
    text_a,        \* generate_diff_report: the old text
    text_b,        \* generate_diff_report: the new text
    report,        \* generate_diff_report: what it returned or raised
    old_text,      \* detect_risk_patterns: its arguments
    new_text,
    clause_title,
    risk,          \* detect_risk_patterns: what it returned or raised
    phrase,        \* the extractors: the text and the quantity written in it
    extracted,     \* the extractors: [years, days, months]
    diff_list,     \* calculate_refined_risk_score: the diffs of a report so far
    score,         \* calculate_refined_risk_score: what it returns for diff_list
    users_row,     \* the row of the user in the table users
    reports_table, \* the rows of the table reports
    clock,         \* datetime.utcnow(), in ticks
    requests       \* the /compare requests of the user: what each one submits,
                   \* where it is and what it has been answered

vars == <<pc, text_a, text_b, report, old_text, new_text, clause_title, risk,
          phrase, extracted, diff_list, score, users_row, reports_table, clock,
          requests>>

reportVars == <<text_a, text_b, report>>

riskVars == <<old_text, new_text, clause_title, risk>>

extractVars == <<phrase, extracted>>

scoreVars == <<diff_list, score>>

serviceVars == <<users_row, reports_table, clock, requests>>

NoReport ==
    [err |-> "", clauses_a |-> <<>>, clauses_b |-> <<>>, matches |-> <<>>,
     diffs |-> <<>>, riskScore |-> 0, verdict |-> ""]

NoPhrase == Phrase(<<>>, "", <<>>, NotFound)

NoneExtracted == [years |-> NotFound, days |-> NotFound, months |-> NotFound]

ReportIdle == text_a = <<>> /\ text_b = <<>> /\ report = NoReport

RiskIdle == old_text = <<>> /\ new_text = <<>> /\ clause_title = <<>> /\ risk = FallsThrough

ExtractIdle == phrase = NoPhrase /\ extracted = NoneExtracted

ScoreIdle == diff_list = <<>> /\ score = 0

ServiceIdle ==
    /\ users_row = NoUser
    /\ reports_table = <<>>
    /\ clock = 0
    /\ requests = <<>>

(***************************************************************************)
(* Spec: generate_diff_report on every pair of an old and a new text; the  *)
(* new text may also be the old text itself.                               *)
(***************************************************************************)
Init ==
    /\ pc = "start"
    /\ \/ text_a \in TextsA /\ text_b \in TextsB \cup {text_a}
       \/ \E pair \in TextPairs : text_a = pair[1] /\ text_b = pair[2]
    /\ report = NoReport
    /\ RiskIdle
    /\ ExtractIdle
    /\ ScoreIdle
    /\ ServiceIdle

GenerateDiffReport ==
    /\ pc = "start"
    /\ report' = generate_diff_report(text_a, text_b)
    /\ pc' = "done"
    /\ UNCHANGED <<text_a, text_b, riskVars, extractVars, scoreVars, serviceVars>>

Next == GenerateDiffReport

Spec == Init /\ [][Next]_vars

(***************************************************************************)
(* SpecRisk: detect_risk_patterns on every old text, new text and title of  *)
(* a family of arguments.                                                  *)
(***************************************************************************)
InitRisk ==
    /\ pc = "start"
    /\ \E family \in RiskFamilies :
          /\ old_text \in family.texts
          /\ new_text \in family.texts
          /\ clause_title \in family.titles
    /\ risk = FallsThrough
    /\ ReportIdle
    /\ ExtractIdle
    /\ ScoreIdle
    /\ ServiceIdle

DetectRiskPatterns ==
    /\ pc = "start"
    /\ risk' = detect_risk_patterns(old_text, new_text, clause_title)
    /\ pc' = "done"
    /\ UNCHANGED <<old_text, new_text, clause_title, reportVars, extractVars, scoreVars,
                   serviceVars>>

NextRisk == DetectRiskPatterns

SpecRisk == InitRisk /\ [][NextRisk]_vars

(***************************************************************************)
(* SpecExtract: extract_years, extract_days and extract_months on every    *)
(* phrase.                                                                 *)
(***************************************************************************)
InitExtract ==
    /\ pc = "start"
    /\ phrase \in Phrases
    /\ extracted = NoneExtracted
    /\ ReportIdle
    /\ RiskIdle
    /\ ScoreIdle
    /\ ServiceIdle

ExtractQuantities ==
    /\ pc = "start"
    /\ extracted' = [years  |-> extract_years(phrase.text),
                     days   |-> extract_days(phrase.text),
                     months |-> extract_months(phrase.text)]
    /\ pc' = "done"
    /\ UNCHANGED <<phrase, reportVars, riskVars, scoreVars, serviceVars>>

NextExtract == ExtractQuantities

SpecExtract == InitExtract /\ [][NextExtract]_vars

(***************************************************************************)
(* SpecScore: calculate_refined_risk_score on a list of diffs that grows   *)
(* by one diff at a time, as the loops of generate_diff_report append      *)
(* them; risk_counters counts the severities of the list.                  *)
(***************************************************************************)
InitScore ==
    /\ pc = "start"
    /\ diff_list = <<>>
    /\ score = calculate_refined_risk_score(RiskCounters(<<>>), <<>>)
    /\ ReportIdle
    /\ RiskIdle
    /\ ExtractIdle
    /\ ServiceIdle

AppendDiff ==
    /\ pc = "start"
    /\ Len(diff_list) < MaxDiffs
    /\ \E diff \in ScoreDiffs :
          /\ diff_list' = Append(diff_list, diff)
          /\ score' = calculate_refined_risk_score(RiskCounters(diff_list'), diff_list')
    /\ UNCHANGED <<pc, reportVars, riskVars, extractVars, serviceVars>>

NextScore == AppendDiff

SpecScore == InitScore /\ [][NextScore]_vars

(***************************************************************************)
(* SpecCompare and SpecQuota: the /compare requests of one user.  A        *)
(* request is [form, pc, usage, response]: pc is "start" before the        *)
(* handler runs, "reading" while it awaits the uploaded files and "done"   *)
(* when it has responded.  SpecCompare has one request, with every form;   *)
(* SpecQuota has concurrent requests.                                      *)
(***************************************************************************)
Request(f) == [form |-> f, pc |-> "start", usage |-> Usage(0, 0), response |-> NoResponse]

Responded(request, response) == [request EXCEPT !.pc = "done", !.response = response]

\* the handler up to await fileA.read(): the usage check and the check of the
\* file names
CheckUsage(r) ==
    /\ r \in 1..Len(requests)
    /\ requests[r].pc = "start"
    /\ IF ~requests[r].form.db.usage
       THEN /\ requests' = [requests EXCEPT ![r] = Responded(@, HTTPException(500))]
            /\ UNCHANGED users_row
       ELSE /\ users_row' = get_usage(users_row).row
            /\ requests' =
                 [requests EXCEPT ![r] =
                    IF get_usage(users_row).usage.used >= get_usage(users_row).usage.limit
                    THEN Responded(@, HTTPException(429))
                    ELSE IF @.form.upload = "bad extension"
                    THEN Responded(@, HTTPException(400))
                    ELSE [@ EXCEPT !.pc = "reading", !.usage = get_usage(users_row).usage]]
    /\ UNCHANGED <<reports_table, clock>>

\* the end of the handler for the response built: save_report and
\* increment_usage, whose exceptions are caught
Respond(r, f, built) ==
    IF built.status # 200
    THEN /\ requests' = [requests EXCEPT ![r] = Responded(@, built)]
         /\ UNCHANGED <<users_row, reports_table>>
    ELSE /\ reports_table' =
              IF f.db.save THEN Append(reports_table, ReportRow(built)) ELSE reports_table
         /\ users_row' = IF f.db.increment THEN increment_usage(users_row).row ELSE users_row
         /\ requests' =
              [requests EXCEPT ![r] =
                 Responded(@, IF f.db.increment
                              THEN [built EXCEPT !.usage = increment_usage(users_row).usage]
                              ELSE built)]

\* the handler from the files read to the response
Compare(r) ==
    /\ r \in 1..Len(requests)
    /\ requests[r].pc = "reading"
    /\ Respond(r, requests[r].form, Handled(requests[r].form, requests[r].usage, clock))
    /\ UNCHANGED clock

\* time passes
MaxClock == 3

Tick ==
    /\ clock < MaxClock
    /\ clock' = clock + 1
    /\ UNCHANGED <<users_row, reports_table, requests>>

\* the inputs: the outcomes of the hosted model for a diff when there is an API
\* key, and for the diffs of a request; the key is there for all or for none
KeyedCalls ==
    {CallFailed, Answered(<<"llm">>, 900), Answered(<<"llm">>, 600), Answered(<<>>, 850),
     AnsweredInWords(<<"llm">>)}

CallSeqs == {<<NoKey, NoKey>>} \cup {<<x, y>> : x \in KeyedCalls, y \in KeyedCalls}

DatabaseUp == Database(TRUE, TRUE, TRUE)

Databases ==
    {DatabaseUp, Database(FALSE, TRUE, TRUE), Database(TRUE, FALSE, TRUE),
     Database(TRUE, TRUE, FALSE), Database(TRUE, FALSE, FALSE)}

\* the old and the new text of a request
ComparePairs ==
    {<<T_major_a, T_major_b>>, <<T_major_a, T_major_a>>, <<T_fee0, T_fee5>>,
     <<T_fee_changed, T_renumbered>>, <<T_blank, T_major_b>>}

CompareForms ==
    {Form("ok", p[1], p[2], use_llm, TRUE, ai, <<NoKey, NoKey>>, DatabaseUp) :
        p \in ComparePairs, use_llm \in BOOLEAN, ai \in {"no key", "failed", "answered"}}
    \cup {Form("ok", p[1], p[2], TRUE, FALSE, "", calls, DatabaseUp) :
        p \in ComparePairs, calls \in CallSeqs}
    \cup {Form("ok", p[1], p[2], FALSE, FALSE, "", <<NoKey, NoKey>>, db) :
        p \in ComparePairs, db \in Databases}
    \cup {Form(upload, T_major_a, T_major_b, FALSE, FALSE, "", <<NoKey, NoKey>>, DatabaseUp) :
        upload \in {"bad extension", "too large", "unreadable"}}

CompareUsers == {UserRow(0, 1, FALSE), UserRow(1, 1, FALSE), UserRow(1, 1, TRUE)}

InitCompare ==
    /\ pc = "start"
    /\ \E f \in CompareForms : requests = <<Request(f)>>
    /\ users_row \in CompareUsers
    /\ reports_table = <<>>
    /\ clock = 0
    /\ ReportIdle
    /\ RiskIdle
    /\ ExtractIdle
    /\ ScoreIdle

StartRequest ==
    /\ \E r \in 1..Len(requests) : CheckUsage(r)
    /\ UNCHANGED <<pc, reportVars, riskVars, extractVars, scoreVars>>

FinishRequest ==
    /\ \E r \in 1..Len(requests) : Compare(r)
    /\ UNCHANGED <<pc, reportVars, riskVars, extractVars, scoreVars>>

TimePasses ==
    /\ Tick
    /\ UNCHANGED <<pc, reportVars, riskVars, extractVars, scoreVars>>

NextCompare == StartRequest \/ FinishRequest \/ TimePasses

SpecCompare == InitCompare /\ [][NextCompare]_vars

(***************************************************************************)
(* SpecQuota: MaxRequests requests of the user are in progress together;   *)
(* the database answers every call.                                        *)
(***************************************************************************)
MaxRequests == 2

MaxLimit == 2

\* the rows of a user who has not used more than the limit
Users ==
    {row \in {UserRow(used, limit, reset_due) :
                 used \in 0..MaxLimit, limit \in 1..MaxLimit, reset_due \in BOOLEAN} :
        row.comparisons_used <= row.comparisons_limit}

QuotaForms ==
    {Form("ok", T_major_a, T_major_b, FALSE, FALSE, "", <<NoKey, NoKey>>, DatabaseUp),
     Form("ok", T_major_a, T_major_b, FALSE, TRUE, "answered", <<CallFailed, CallFailed>>,
          DatabaseUp)}

InitQuota ==
    /\ pc = "start"
    /\ requests \in [1..MaxRequests -> {Request(f) : f \in QuotaForms}]
    /\ users_row \in Users
    /\ reports_table = <<>>
    /\ clock = 0
    /\ ReportIdle
    /\ RiskIdle
    /\ ExtractIdle
    /\ ScoreIdle

SpecQuota == InitQuota /\ [][NextCompare]_vars

(***************************************************************************)
(* What the properties below speak of.                                     *)
(***************************************************************************)
Returns == pc = "done" /\ report.err = ""

MatchedA == {report.matches[k][1] : k \in 1..Len(report.matches)}

MatchedB == {report.matches[k][2] : k \in 1..Len(report.matches)}

DiffsOfType(type) == SelectSeq(report.diffs, LAMBDA d : d.type = type)

\* similarity < 0.98
BelowThreshold(similarity) == 100 * similarity[1] < 98 * similarity[2]

\* the text a diff shows for a clause: its first 800 characters, trimmed
Shown(clause) == Strip(Truncate(clause.content, 800))

\* title_sim * 0.5 + content_sim * 0.5 <= 0.2 for clause i of A and clause j of B
LowScore(i, j) ==
    ~FracLess(<<2, 10>>,
              FracHalfSum(calculate_similarity(report.clauses_a[i].title,
                                               report.clauses_b[j].title),
                          calculate_similarity(report.clauses_a[i].content,
                                               report.clauses_b[j].content)))

NumberMatch(i, j) ==
    /\ report.clauses_a[i].number # <<>>
    /\ report.clauses_a[i].number = report.clauses_b[j].number

\* clause i of A resembles no clause of B
Unrelated(i) ==
    \A j \in 1..Len(report.clauses_b) : LowScore(i, j) /\ ~NumberMatch(i, j)

\* C1: whenever generate_diff_report returns, riskScore is an integer of 0..100
RiskScoreInRange == Returns => report.riskScore \in 0..100

\* C1: a report whose points add up to more than 100 and whose score is 100
RiskScoreCapped ==
    /\ Returns
    /\ TotalRisk(RiskCounters(report.diffs), report.diffs) > 100
    /\ report.riskScore = 100

\* C2: comparing a text with itself returns score 0 and no diff, every clause
\* being matched to its own copy with a similarity of at least 0.98
SelfCompareClean ==
    pc = "done" /\ text_b = text_a =>
        /\ report.err = ""
        /\ report.riskScore = 0
        /\ report.diffs = <<>>
        /\ Len(report.matches) = Len(report.clauses_a)
        /\ \A k \in 1..Len(report.matches) :
              /\ report.matches[k][1] = k
              /\ report.matches[k][2] = k
              /\ ~BelowThreshold(report.matches[k][3])

\* C3: the matches are a one-to-one partial matching of indices in range
MatchingOneToOne ==
    pc = "done" =>
        /\ \A k \in 1..Len(report.matches) :
              /\ report.matches[k][1] \in 1..Len(report.clauses_a)
              /\ report.matches[k][2] \in 1..Len(report.clauses_b)
        /\ \A k, l \in 1..Len(report.matches) :
              k # l => /\ report.matches[k][1] # report.matches[l][1]
                       /\ report.matches[k][2] # report.matches[l][2]

\* C3: a clause of A is left unmatched although a clause of B bears its number,
\* because that clause of B is already matched
NumberAlreadyTaken ==
    /\ pc = "done"
    /\ \E i \in 1..Len(report.clauses_a) :
          /\ i \notin MatchedA
          /\ \E j \in MatchedB : NumberMatch(i, j)

\* C4: the Modified diffs are, in order, the matched pairs of similarity below
\* 0.98, one diff for each, and no other matched pair yields a diff
ModifiedAreLowPairs ==
    Returns =>
        LET low == SortedSeq({k \in 1..Len(report.matches) :
                                 BelowThreshold(report.matches[k][3])})
            modified == DiffsOfType("Modified")
        IN  /\ Len(modified) = Len(low)
            /\ \A k \in 1..Len(low) :
                  /\ modified[k].oldText
                         = Shown(report.clauses_a[report.matches[low[k]][1]])
                  /\ modified[k].newText
                         = Shown(report.clauses_b[report.matches[low[k]][2]])
                  /\ modified[k].confidence = Confidence(report.matches[low[k]][3])
            /\ Len(report.diffs)
                   = Len(low) + Len(DiffsOfType("Removed")) + Len(DiffsOfType("Added"))

\* C4: a report with a matched pair at or above 0.98 and a matched pair below it
PairsOnBothSides ==
    /\ Returns
    /\ \E k \in 1..Len(report.matches) : BelowThreshold(report.matches[k][3])
    /\ \E k \in 1..Len(report.matches) : ~BelowThreshold(report.matches[k][3])

\* C5: the Removed diffs are, in order, the clauses of A with content that are in
\* no match, the Added diffs those of B, and a clause of A that resembles no
\* clause of B is in no match
UnmatchedAreReported ==
    Returns =>
        LET lone_a == SortedSeq({i \in 1..Len(report.clauses_a) :
                                    /\ i \notin MatchedA
                                    /\ Strip(report.clauses_a[i].content) # <<>>})
            lone_b == SortedSeq({i \in 1..Len(report.clauses_b) :
                                    /\ i \notin MatchedB
                                    /\ Strip(report.clauses_b[i].content) # <<>>})
            removed == DiffsOfType("Removed")
            added == DiffsOfType("Added")
        IN  /\ Len(removed) = Len(lone_a)
            /\ \A k \in 1..Len(lone_a) :
                  /\ removed[k].clause
                         = OrElse(report.clauses_a[lone_a[k]].title,
                                  D.Clause \o IntToStr(lone_a[k]))
                  /\ removed[k].oldText = Shown(report.clauses_a[lone_a[k]])
            /\ Len(added) = Len(lone_b)
            /\ \A k \in 1..Len(lone_b) :
                  /\ added[k].clause
                         = OrElse(report.clauses_b[lone_b[k]].title,
                                  D.New_Clause \o IntToStr(lone_b[k]))
                  /\ added[k].newText = Shown(report.clauses_b[lone_b[k]])
            /\ \A i \in MatchedA : ~Unrelated(i)

\* C5: a clause of A that resembles none of the clauses of B is reported Removed,
\* and a clause of B is reported Added
UnrelatedClauseRemoved ==
    /\ Returns
    /\ report.clauses_b # <<>>
    /\ \E i \in 1..Len(report.clauses_a) :
          /\ Unrelated(i)
          /\ \E k \in 1..Len(report.diffs) :
                /\ report.diffs[k].type = "Removed"
                /\ report.diffs[k].oldText = Shown(report.clauses_a[i])
    /\ DiffsOfType("Added") # <<>>

\* C6: every Removed or Added diff shows the content, which is not blank, of a
\* clause that has some; a text of blank clauses gives no such diff
BlankNeverReported ==
    Returns =>
        /\ \A k \in 1..Len(report.diffs) :
              /\ report.diffs[k].type = "Removed" =>
                    /\ report.diffs[k].oldText # <<>>
                    /\ \E i \in 1..Len(report.clauses_a) :
                          /\ Strip(report.clauses_a[i].content) # <<>>
                          /\ report.diffs[k].oldText = Shown(report.clauses_a[i])
              /\ report.diffs[k].type = "Added" =>
                    /\ report.diffs[k].newText # <<>>
                    /\ \E i \in 1..Len(report.clauses_b) :
                          /\ Strip(report.clauses_b[i].content) # <<>>
                          /\ report.diffs[k].newText = Shown(report.clauses_b[i])
        /\ (\A i \in 1..Len(report.clauses_a) : Strip(report.clauses_a[i].content) = <<>>)
               => DiffsOfType("Removed") = <<>>
        /\ (\A i \in 1..Len(report.clauses_b) : Strip(report.clauses_b[i].content) = <<>>)
               => DiffsOfType("Added") = <<>>

\* C6: the old text is white space only, its 'Document' clause is in no match,
\* and the report has an Added diff but no Removed diff
BlankDocumentUnmatched ==
    /\ Returns
    /\ text_a # <<>>
    /\ Strip(text_a) = <<>>
    /\ Len(report.clauses_a) = 1
    /\ report.clauses_a[1].title = S_Document
    /\ report.matches = <<>>
    /\ DiffsOfType("Added") # <<>>
    /\ DiffsOfType("Removed") = <<>>

\* C7: generate_diff_report never raises
NeverRaises == pc = "done" => report.err = ""

\* C8: for the two contracts of the scenario both changes are High: the report
\* has at least 2 High diffs and a riskScore above 50
ScenarioBothHigh ==
    pc = "done" /\ text_a = T_scenario_a /\ text_b = T_scenario_b =>
        /\ report.err = ""
        /\ Cardinality({k \in 1..Len(report.diffs) : report.diffs[k].severity = "High"}) >= 2
        /\ \A k \in 1..Len(report.diffs) : report.diffs[k].severity = "High"
        /\ report.riskScore > 50

\* C9: extract_years and extract_days return the quantity of a phrase that
\* states one, written "5 years" or "five (5) years", and 999 for a phrase
\* that states none
ExtractsStatedQuantity ==
    pc = "done" /\ phrase # NoPhrase =>
        /\ phrase.unit = K.year => extracted.years = phrase.value
        /\ phrase.unit = K.day => extracted.days = phrase.value

\* a description "<prefix><old> to <new><suffix>" of a quantity branch
Describes(summary, prefixes, suffix) ==
    /\ \E prefix \in prefixes : StartsAt(summary, 1, prefix)
    /\ EndsWith(summary, suffix)

\* C10: a quantity branch of detect_risk_patterns (confidentiality years and
\* months, termination days, payment deadline days, agreement-term years) returns
\* only when neither the old nor the new extraction is 999
QuantityBranchNeedsBoth ==
    pc = "done" /\ risk # FallsThrough /\ risk.err = "" =>
        /\ Describes(risk.summary, {D.conf_high, D.conf_medium}, D.years) =>
              extract_years(old_text) # 999 /\ extract_years(new_text) # 999
        /\ Describes(risk.summary, {D.conf_medium}, D.months) =>
              extract_months(old_text) # 999 /\ extract_months(new_text) # 999
        /\ Describes(risk.summary, {D.term_high, D.term_medium, D.deadline}, D.days) =>
              extract_days(old_text) # 999 /\ extract_days(new_text) # 999
        /\ Describes(risk.summary, {D.term_extended}, D.years) =>
              extract_years(old_text) # 999 /\ extract_years(new_text) # 999

\* C10: a confidentiality clause whose old text states no years and whose new
\* text states some: the years branch does not return
MissingYearsDeclined ==
    /\ pc = "done"
    /\ Contains(Lower(clause_title), K.confidential)
    /\ extract_years(old_text) = 999
    /\ extract_years(new_text) # 999
    /\ ~Describes(risk.summary, {D.conf_high, D.conf_medium}, D.years)


\* the confidentiality gate of rule 1: the title or the old text says 'confidential'
ConfidentialityGate ==
    \/ Contains(Lower(clause_title), K.confidential)
    \/ Contains(Lower(old_text), K.confidential)

\* both texts state years and the new text states fewer
YearsReduced ==
    /\ extract_years(old_text) # NotFound
    /\ extract_years(new_text) # NotFound
    /\ extract_years(new_text) < extract_years(old_text)

\* C11: for a pair that passes the confidentiality gate and whose years are both
\* found and reduced, detect_risk_patterns returns High exactly when the
\* reduction is at least 50% of the old years, and Medium otherwise
ConfidentialityTiers ==
    pc = "done" /\ ConfidentialityGate /\ YearsReduced =>
        /\ risk.err = ""
        /\ risk.severity \in {"High", "Medium"}
        /\ risk.severity = "High"
               <=> 2 * (extract_years(old_text) - extract_years(new_text))
                       >= extract_years(old_text)
        /\ extract_years(old_text) = 5 /\ extract_years(new_text) = 1
               => risk.severity = "High"
        /\ extract_years(old_text) = 5 /\ extract_years(new_text) = 4
               => risk.severity # "High"

\* C11: a confidentiality clause reduced from 5 to 4 years has been classified
\* Medium
FiveToFourYearsMedium ==
    /\ pc = "done"
    /\ ConfidentialityGate
    /\ extract_years(old_text) = 5
    /\ extract_years(new_text) = 4
    /\ risk.severity = "Medium"

\* the termination gate of rule 2: the title or the old text says 'terminat'
TerminationGate ==
    \/ Contains(Lower(clause_title), K.terminat)
    \/ Contains(Lower(old_text), K.terminat)

\* both texts state days and the new text states fewer
DaysReduced ==
    /\ extract_days(old_text) # NotFound
    /\ extract_days(new_text) # NotFound
    /\ extract_days(new_text) < extract_days(old_text)

\* the reduction of the days is at least pct percent of the old days
DaysReducedBy(pct) ==
    (extract_days(old_text) - extract_days(new_text)) * 100 >= pct * extract_days(old_text)

\* C12: for a pair that passes the termination gate and whose days are both found
\* and reduced, the termination rule returns High for a reduction of at least 40%,
\* Medium for one of at least 20% and below 40%, and does not return for one
\* below 20%: the result then comes from a later rule or the fallback
TerminationTiers ==
    pc = "done" /\ TerminationGate /\ DaysReduced =>
        /\ DaysReducedBy(40) =>
              /\ TerminationRule(old_text, new_text, clause_title).severity = "High"
              /\ ~ConfidentialityRule(old_text, new_text, clause_title).fired =>
                    /\ risk.severity = "High"
                    /\ Describes(risk.summary, {D.term_high}, D.days)
        /\ DaysReducedBy(20) /\ ~DaysReducedBy(40) =>
              /\ TerminationRule(old_text, new_text, clause_title).severity = "Medium"
              /\ ~ConfidentialityRule(old_text, new_text, clause_title).fired =>
                    /\ risk.severity = "Medium"
                    /\ Describes(risk.summary, {D.term_medium}, D.days)
        /\ ~DaysReducedBy(20) =>
              /\ ~TerminationRule(old_text, new_text, clause_title).fired
              /\ risk.fired
              /\ ~Describes(risk.summary, {D.term_high, D.term_medium}, D.days)

\* C12: a termination clause whose notice falls from 6 to 5 days, less than 20%,
\* has been classified by the fallback
SmallNoticeReductionFallsThrough ==
    /\ pc = "done"
    /\ TerminationGate
    /\ extract_days(old_text) = 6
    /\ extract_days(new_text) = 5
    /\ risk.summary \in {D.critical_significant, D.critical_moderate, D.minor, D.minimal}

\* the payment gate of rule 3: the title says 'payment' or the old text says
\* 'fee' or 'consideration'
PaymentGate ==
    \/ Contains(Lower(clause_title), K.payment)
    \/ Contains(Lower(old_text), K.fee)
    \/ Contains(Lower(old_text), K.consideration)

\* both texts yield a dollar amount
BothAmounts ==
    /\ extract_amounts(old_text).err = ""
    /\ extract_amounts(new_text).err = ""
    /\ extract_amounts(old_text).amounts # <<>>
    /\ extract_amounts(new_text).amounts # <<>>

\* the first amount of the old and of the new text, in cents
OldAmount == extract_amounts(old_text).amounts[1]

NewAmount == extract_amounts(new_text).amounts[1]

\* C13: for a pair that passes the payment gate and whose texts both yield an
\* amount, the payment rule returns High when the first new amount exceeds the
\* first old amount by at least 25%, Medium when it exceeds it by less, and Low
\* when it is smaller
PaymentTiers ==
    pc = "done" /\ PaymentGate /\ BothAmounts =>
        /\ NewAmount > OldAmount /\ (NewAmount - OldAmount) * 100 >= 25 * OldAmount =>
              /\ PaymentRule(old_text, new_text, clause_title).err = ""
              /\ PaymentRule(old_text, new_text, clause_title).severity = "High"
        /\ NewAmount > OldAmount /\ (NewAmount - OldAmount) * 100 < 25 * OldAmount =>
              /\ PaymentRule(old_text, new_text, clause_title).err = ""
              /\ PaymentRule(old_text, new_text, clause_title).severity = "Medium"
        /\ NewAmount < OldAmount =>
              /\ PaymentRule(old_text, new_text, clause_title).err = ""
              /\ PaymentRule(old_text, new_text, clause_title).severity = "Low"
        /\ NewAmount # OldAmount => risk = PaymentRule(old_text, new_text, clause_title)

\* C14: for a pair that passes the payment gate and whose day counts are both
\* found with the new deadline at least 15 days shorter, the severity is High
\* whatever the dollar amounts are
ShorterDeadlineAlwaysHigh ==
    /\ pc = "done"
    /\ PaymentGate
    /\ extract_days(old_text) # NotFound
    /\ extract_days(new_text) # NotFound
    /\ extract_days(old_text) - extract_days(new_text) >= 15
    => risk.err = "" /\ risk.severity = "High"

\* the liability gate of rule 4: the title says 'liabilit' or 'indemnif'
LiabilityGate ==
    \/ Contains(Lower(clause_title), K.liabilit)
    \/ Contains(Lower(clause_title), K.indemnif)

\* the new text says 'unlimited' and the old text does not
UnlimitedIntroduced ==
    Contains(Lower(new_text), K.unlimited) /\ ~Contains(Lower(old_text), K.unlimited)

\* the old text says 'cap' and the new text does not
CapWordRemoved ==
    Contains(Lower(old_text), K.cap) /\ ~Contains(Lower(new_text), K.cap)

\* the old text yields an amount and the new text yields none
CapAmountRemoved ==
    /\ extract_amounts(old_text).err = ""
    /\ extract_amounts(new_text).err = ""
    /\ extract_amounts(old_text).amounts # <<>>
    /\ extract_amounts(new_text).amounts = <<>>

\* C15: for a liability or indemnification clause detect_risk_patterns returns
\* High when the new text introduces 'unlimited', or the old text has an amount
\* and the new text has none, or the old text says 'cap' and the new text does
\* not; and otherwise Medium when both texts have an amount and the new one is
\* larger; whatever else the texts mention
LiabilityClassified ==
    pc = "done" /\ LiabilityGate =>
        /\ UnlimitedIntroduced \/ CapAmountRemoved \/ CapWordRemoved =>
              risk.err = "" /\ risk.severity = "High"
        /\ /\ ~(UnlimitedIntroduced \/ CapAmountRemoved \/ CapWordRemoved)
           /\ BothAmounts
           /\ NewAmount > OldAmount
           => risk.err = "" /\ risk.severity = "Medium"

\* the new text speaks of competing and the old text does not
NonCompeteIntroduced ==
    Contains(Lower(new_text), K.compete) /\ ~Contains(Lower(old_text), K.compete)

\* C16: when the new text introduces a non-compete restriction that the old
\* text did not contain, detect_risk_patterns returns High with a description
\* that says 'non-compete', with or without years in the new text
NewNonCompeteHigh ==
    pc = "done" /\ NonCompeteIntroduced =>
        /\ risk.err = ""
        /\ risk.severity = "High"
        /\ Contains(Lower(risk.summary), K.noncompete_hyphen)

\* the diffs of diff_list of a severity
CountOf(severity) ==
    Cardinality({k \in 1..Len(diff_list) : diff_list[k].severity = severity})

\* the bonus the claim gives a diff: by what its description reports
ClaimedBonus(diff) ==
    IF diff.type \in {"Added", "Removed"} THEN 0
    ELSE IF \/ Describes(diff.summary, {D.conf_high, D.conf_medium}, D.years)
            \/ Describes(diff.summary, {D.conf_medium}, D.months) THEN 15
    ELSE IF diff.summary = D.unlimited THEN 12
    ELSE IF StartsAt(diff.summary, 1, D.noncompete) THEN 12
    ELSE IF Describes(diff.summary, {D.term_high, D.term_medium}, D.days) THEN 10
    ELSE 0

RECURSIVE ClaimedBonuses(_)
ClaimedBonuses(k) ==
    IF k > Len(diff_list) THEN 0 ELSE ClaimedBonus(diff_list[k]) + ClaimedBonuses(k + 1)

ClaimedTotal ==
    18 * CountOf("High") + 10 * CountOf("Medium") + 3 * CountOf("Low") + ClaimedBonuses(1)

\* C17: the score is min(100, 18*High + 10*Medium + 3*Low + bonuses), with a
\* bonus of 15 for a reduced confidentiality period, 12 for unlimited liability,
\* 12 for a non-compete, 10 for a reduced termination notice, and none for an
\* Added or a Removed diff
ScoreIsCappedSum ==
    /\ score = MinOf({100, ClaimedTotal})
    /\ \A k \in 1..Len(diff_list) :
          diff_list[k].type \in {"Added", "Removed"} => Multipliers(diff_list[k]) = 0

\* C17: a list with an Added and a Removed diff and a Modified diff for each of
\* the four bonuses, whose points stay below 100
EveryBonusBelowCap ==
    /\ \E k \in 1..Len(diff_list) : diff_list[k].type = "Added"
    /\ \E k \in 1..Len(diff_list) : diff_list[k].type = "Removed"
    /\ \E k \in 1..Len(diff_list) : ClaimedBonus(diff_list[k]) = 15
    /\ \E k \in 1..Len(diff_list) : ClaimedBonus(diff_list[k]) = 10
    /\ \E k \in 1..Len(diff_list) : ClaimedBonus(diff_list[k]) = 12
    /\ score < 100
    /\ score = ClaimedTotal

\* C18: appending a diff never lowers the score, and a score of 100 stays 100
ScoreMonotone ==
    [][/\ score' >= score
       /\ score = 100 => score' = 100]_vars

\* C18: a list whose score was already 100 before its last diff was appended
SaturatedBeforeLast ==
    /\ Len(diff_list) > 1
    /\ score = 100
    /\ calculate_refined_risk_score(
           RiskCounters(SubSeq(diff_list, 1, Len(diff_list) - 1)),
           SubSeq(diff_list, 1, Len(diff_list) - 1)) = 100

\* the severity the claim gives a clause present only in B
ClaimedAdditionSeverity(title, content) ==
    IF Mentions(title, content,
                {K.noncompete_hyphen, K.non_compete,
                 K.liability, K.indemnif, K.penalty, K.liquidated_damages})
    THEN "High"
    ELSE IF Mentions(title, content,
                     {K.confidential, K.termination, K.obligation, K.restriction})
    THEN "Medium"
    ELSE "Low"

\* C19: the Added diff of a clause present only in B is High when its title or
\* content says 'non-compete' or 'non compete', or liability, indemnif, penalty
\* or liquidated damages; otherwise Medium when it says confidential,
\* termination, obligation or restriction; otherwise Low
AddedSeverityByKeyword ==
    Returns =>
        LET lone_b == SortedSeq({i \in 1..Len(report.clauses_b) :
                                    /\ i \notin MatchedB
                                    /\ Strip(report.clauses_b[i].content) # <<>>})
            added == DiffsOfType("Added")
        IN  /\ Len(added) = Len(lone_b)
            /\ \A k \in 1..Len(lone_b) :
                  added[k].severity
                      = ClaimedAdditionSeverity(report.clauses_b[lone_b[k]].title,
                                                report.clauses_b[lone_b[k]].content)

\* the clauses of B that are in a match with a clause of A before the i-th
UsedBefore(i) ==
    {report.matches[l][2] : l \in {k \in 1..Len(report.matches) : report.matches[k][1] < i}}

\* the clauses of B still unused when clause i of A is matched that bear its number
SameNumberUnused(i) ==
    {j \in 1..Len(report.clauses_b) : j \notin UsedBefore(i) /\ NumberMatch(i, j)}

\* title_sim * 0.5 + content_sim * 0.5 for clause i of A and clause j of B
WeightedScore(i, j) ==
    FracHalfSum(calculate_similarity(report.clauses_a[i].title, report.clauses_b[j].title),
                calculate_similarity(report.clauses_a[i].content,
                                     report.clauses_b[j].content))

\* C20: a clause of A with a number is matched to the first unused clause of B
\* that bears the same number, and the similarity stored in the match is 0.9
NumberMatchStoresFixed ==
    pc = "done" =>
        \A i \in 1..Len(report.clauses_a) :
            SameNumberUnused(i) # {} =>
                \E k \in 1..Len(report.matches) :
                    /\ report.matches[k][1] = i
                    /\ report.matches[k][2] = MinOf(SameNumberUnused(i))
                    /\ report.matches[k][3][1] * NumberMatchSimilarity[2]
                           = NumberMatchSimilarity[1] * report.matches[k][3][2]

\* C20: a clause of A with a number is matched to the first unused clause of B
\* that bears the same number, whatever the other clauses say, and the
\* similarity stored in the match is that of the contents of the two clauses
NumberMatchStoresContent ==
    pc = "done" =>
        \A i \in 1..Len(report.clauses_a) :
            SameNumberUnused(i) # {} =>
                \E k \in 1..Len(report.matches) :
                    /\ report.matches[k][1] = i
                    /\ report.matches[k][2] = MinOf(SameNumberUnused(i))
                    /\ report.matches[k][3]
                           = calculate_similarity(
                                 report.clauses_a[i].content,
                                 report.clauses_b[MinOf(SameNumberUnused(i))].content)

\* C20: a clause of A is matched by its number to a clause of B although another
\* unused clause of B resembles it more, and the stored similarity is not 0.9
NumberBeatsResemblance ==
    /\ pc = "done"
    /\ \E k \in 1..Len(report.matches) :
          /\ NumberMatch(report.matches[k][1], report.matches[k][2])
          /\ \E j \in 1..Len(report.clauses_b) :
                /\ j \notin UsedBefore(report.matches[k][1])
                /\ FracLess(WeightedScore(report.matches[k][1], report.matches[k][2]),
                            WeightedScore(report.matches[k][1], j))
          /\ 10 * report.matches[k][3][1] # 9 * report.matches[k][3][2]

\* the clauses of B still unused when clause i of A is matched whose weighted
\* score with it exceeds 0.2
ScoringUnusedOf(i, scores) ==
    {j \in 1..Len(report.clauses_b) :
        j \notin UsedBefore(i) /\ FracLess(<<2, 10>>, scores[j])}

\* the clauses of scoring no other one of them outscores
BestScoringOf(scoring, scores) ==
    {j \in scoring : \A l \in scoring : ~FracLess(scores[j], scores[l])}

\* the weighted scores of clause i of A with the clauses of B from the j-th on
RECURSIVE ScoresFrom(_, _)
ScoresFrom(i, j) ==
    IF j > Len(report.clauses_b) THEN <<>>
    ELSE <<WeightedScore(i, j)>> \o ScoresFrom(i, j + 1)

ScoringUnused(i) == ScoringUnusedOf(i, ScoresFrom(i, 1))

BestScoring(i) ==
    LET scores == ScoresFrom(i, 1)
    IN  BestScoringOf(ScoringUnusedOf(i, scores), scores)

\* C21: a clause of A without a number match is matched to the unused clause of
\* B with the highest weighted score above 0.2, the first of them on a tie, and
\* is in no match when no unused clause of B scores above 0.2
BestScoreMatched ==
    pc = "done" =>
        \A i \in 1..Len(report.clauses_a) :
            SameNumberUnused(i) = {} =>
                LET scores == ScoresFrom(i, 1)
                    scoring == ScoringUnusedOf(i, scores)
                IN  /\ scoring = {} => i \notin MatchedA
                    /\ scoring # {} =>
                          \E k \in 1..Len(report.matches) :
                              /\ report.matches[k][1] = i
                              /\ report.matches[k][2]
                                     = MinOf(BestScoringOf(scoring, scores))

\* C21: a clause of A is matched by its text to the first of two unused clauses
\* of B that score the same, and another clause of A is left unmatched
FirstOfTiedMatched ==
    /\ pc = "done"
    /\ \E i \in 1..Len(report.clauses_a) :
          /\ SameNumberUnused(i) = {}
          /\ Cardinality(BestScoring(i)) > 1
          /\ i \in MatchedA
    /\ \E i \in 1..Len(report.clauses_a) :
          /\ SameNumberUnused(i) = {}
          /\ i \notin MatchedA
          /\ UsedBefore(i) # 1..Len(report.clauses_b)

\* no line of the text is content: each is blank or a heading
NoContentLine(text) ==
    \A k \in 1..Len(Split(text, "\n")) :
        \/ Strip(Split(text, "\n")[k]) = <<>>
        \/ IsHeading(Strip(Split(text, "\n")[k]))

\* clauses is the one clause 'Document' holding the whole text
WholeDocument(clauses, text) ==
    /\ Len(clauses) = 1
    /\ clauses[1].title = S_Document
    /\ clauses[1].number = <<>>
    /\ clauses[1].content = text

\* C22: segment_clauses never returns an empty list, and for a text without a
\* line of content (empty, blank, headings only) it returns the one clause
\* 'Document' with no number and the whole text as content
NeverEmptySegmentation ==
    pc = "done" =>
        /\ report.clauses_a # <<>>
        /\ report.clauses_b # <<>>
        /\ NoContentLine(text_a) => WholeDocument(report.clauses_a, text_a)
        /\ NoContentLine(text_b) => WholeDocument(report.clauses_b, text_b)
        /\ ~NoContentLine(text_a) =>
              \A i \in 1..Len(report.clauses_a) : report.clauses_a[i].content # <<>>
        /\ ~NoContentLine(text_b) =>
              \A i \in 1..Len(report.clauses_b) : report.clauses_b[i].content # <<>>

\* C22: the old text is headings only, the new text is blank, and each came back
\* as the clause 'Document' holding it
HeadingsOnlyIsDocument ==
    /\ pc = "done"
    /\ text_a = T_heading_only
    /\ WholeDocument(report.clauses_a, text_a)
    /\ text_b = T_blank
    /\ WholeDocument(report.clauses_b, text_b)

\* C23: comparing 'Confidentiality for 5 years, liability cap $100,000' with
\* 'Confidentiality for 1 year, unlimited liability' gives a riskScore above 60
MajorChangesScoreHigh ==
    pc = "done" /\ text_a = T_major_a /\ text_b = T_major_b =>
        report.err = "" /\ report.riskScore > 60

(***************************************************************************)
(* The requests and their diffs.                                           *)
(***************************************************************************)
Ids == 1..Len(requests)

\* request r has been answered with a report
Succeeded(r) == requests[r].pc = "done" /\ requests[r].response.status = 200

\* the diffs of the rule-based engine for the texts of request r
EngineDiffs(r) == generate_diff_report(requests[r].form.text_a, requests[r].form.text_b).diffs

\* request r ran the explanation step with the hosted model
StepRun(r) ==
    /\ Succeeded(r)
    /\ ~requests[r].form.use_ai_full
    /\ requests[r].form.use_llm

\* in request r the hosted model was called for the k-th diff and the call failed
HostedCallFailed(r, k) ==
    /\ StepRun(r)
    /\ k \in 1..Len(requests[r].response.diffs)
    /\ CallFor(requests[r].form.calls, k).kind = "failed"
    /\ \A j \in 1..(k - 1) : CallFor(requests[r].form.calls, j).numeric

SameEngineFields(diff, engine_diff) ==
    /\ diff.clause = engine_diff.clause
    /\ diff.type = engine_diff.type
    /\ diff.summary = engine_diff.summary
    /\ diff.oldText = engine_diff.oldText
    /\ diff.newText = engine_diff.newText
    /\ diff.severity = engine_diff.severity
    /\ diff.confidence = engine_diff.confidence

\* C24: a diff for which the call of the hosted model failed in the explanation
\* step has an empty explanation, and its clause, type, summary, oldText,
\* newText, severity and confidence are those of the engine.
FailedCallLeavesDiff ==
    \A r \in Ids : \A k \in 1..Len(requests[r].response.diffs) :
        HostedCallFailed(r, k) =>
            /\ requests[r].response.diffs[k].explanation = <<>>
            /\ SameEngineFields(requests[r].response.diffs[k], EngineDiffs(r)[k])

\* what get_usage returns when request r starts
UsageAtStart == get_usage(users_row).usage

\* request r starts in this step
Starts(r) == requests[r].pc = "start" /\ requests'[r].pc # "start"

\* C25: a request that starts when comparisons_used >= comparisons_limit is
\* rejected with 429, and comparisons_used <= comparisons_limit in every
\* reachable state, for any interleaving of the requests of the user.
QuotaRespected ==
    /\ [](users_row.comparisons_used <= users_row.comparisons_limit)
    /\ [][\A r \in Ids :
            Starts(r) /\ UsageAtStart.used >= UsageAtStart.limit
                => requests'[r].response.status = 429]_vars

\* the specialised rules that return or raise for the arguments
FiringRules == {k \in 1..9 : Rule(k, old_text, new_text, clause_title).fired}

\* C26: detect_risk_patterns returns what the first specialised rule that fires
\* returns, in the order confidentiality, termination, payment, liability,
\* non-compete, governing law, dispute resolution, attorney fees, agreement
\* term, whatever the later rules would return; it returns the similarity
\* fallback only when no specialised rule fires.
FirstFiringRuleWins ==
    pc = "done" =>
        IF FiringRules = {}
        THEN risk = GeneralSimilarity(old_text, new_text, clause_title)
        ELSE risk = Rule(MinOf(FiringRules), old_text, new_text, clause_title)

\* a Medium result of a rule although a later rule would return High
LaterHighRuleIgnored ==
    /\ pc = "done"
    /\ risk.severity = "Medium"
    /\ \E k \in FiringRules :
          /\ k > MinOf(FiringRules)
          /\ Rule(k, old_text, new_text, clause_title).severity = "High"

\* request r asked for the AI-powered comparison, passed the checks before the
\* comparison, and compare_contracts_with_ai failed
AiComparisonFailed(r) ==
    /\ requests[r].pc = "done"
    /\ requests[r].form.db.usage
    /\ requests[r].response.status # 429
    /\ requests[r].form.upload = "ok"
    /\ Validated(requests[r].form) = 200
    /\ requests[r].form.use_ai_full
    /\ requests[r].form.ai \in {"no key", "failed"}

\* the response of request r is the report of the rule-based engine
RuleBasedResponse(r, engine_report) ==
    /\ requests[r].response.status = 200
    /\ requests[r].response.diffs = engine_report.diffs
    /\ requests[r].response.riskScore = engine_report.riskScore
    /\ requests[r].response.verdict = engine_report.verdict

\* C27: when the AI-powered comparison is requested and compare_contracts_with_ai
\* fails, the request succeeds with the report of generate_diff_report on the
\* two texts, the comparison method is the rule-based fallback, and no
\* explanation step is run.
AiFailureFallsBack ==
    \A r \in Ids :
        AiComparisonFailed(r) =>
            /\ RuleBasedResponse(r, generate_diff_report(requests[r].form.text_a,
                                                         requests[r].form.text_b))
            /\ requests[r].response.comparisonMethod = "Rule-Based (AI Fallback)"
            /\ \A k \in 1..Len(requests[r].response.diffs) :
                  requests[r].response.diffs[k].explanation = <<>>

\* the k-th match was accepted by text similarity, not by number
AcceptedByText(k) == SameNumberUnused(report.matches[k][1]) = {}

\* the two clauses of the k-th match have the same content under different titles
Retitled(k) ==
    /\ report.clauses_a[report.matches[k][1]].content
           = report.clauses_b[report.matches[k][2]].content
    /\ report.clauses_a[report.matches[k][1]].title
           # report.clauses_b[report.matches[k][2]].title

\* a Modified diff shows the two clauses of the k-th match
HasModifiedDiff(k) ==
    \E l \in 1..Len(report.diffs) :
        /\ report.diffs[l].type = "Modified"
        /\ report.diffs[l].oldText = Shown(report.clauses_a[report.matches[k][1]])
        /\ report.diffs[l].newText = Shown(report.clauses_b[report.matches[k][2]])

\* C28: the similarity stored for a pair accepted by text similarity is the
\* similarity of the two contents, not the weighted score of titles and
\* contents; two clauses with the same content under different titles are
\* stored with similarity 1.0 and yield no Modified diff.
ContentSimilarityStored ==
    Returns =>
        \A k \in 1..Len(report.matches) :
            AcceptedByText(k) =>
                /\ report.matches[k][3]
                       = calculate_similarity(
                             report.clauses_a[report.matches[k][1]].content,
                             report.clauses_b[report.matches[k][2]].content)
                /\ Retitled(k) =>
                      /\ report.matches[k][3][1] = report.matches[k][3][2]
                      /\ ~HasModifiedDiff(k)

\* a pair accepted by text similarity with the same content under different
\* titles: its weighted score is below 1
RetitledPairStored ==
    /\ Returns
    /\ \E k \in 1..Len(report.matches) :
          /\ AcceptedByText(k)
          /\ Retitled(k)
          /\ FracLess(WeightedScore(report.matches[k][1], report.matches[k][2]), <<1, 1>>)

\* the lines of a text, stripped
RECURSIVE StripAll(_)
StripAll(lines) ==
    IF lines = <<>> THEN <<>> ELSE <<Strip(Head(lines))>> \o StripAll(Tail(lines))

StrippedLines(text) == StripAll(Split(text, "\n"))

\* a heading line: a numbered capitalised heading, a line in capitals of 4 to 99
\* characters, or a line of fewer than 100 characters that ends with a colon
HeadingLine(stripped) ==
    \/ NumberedHeading(stripped) # <<>>
    \/ IsUpper(stripped) /\ Len(stripped) \in 4..99
    \/ EndsWith(stripped, <<":">>) /\ Len(stripped) \in 1..99

\* for each line, whether it is a heading
RECURSIVE HeadingLines(_)
HeadingLines(lines) ==
    IF lines = <<>> THEN <<>>
    ELSE <<Head(lines) # <<>> /\ HeadingLine(Head(lines))>> \o HeadingLines(Tail(lines))

\* the body lines under the heading at line h, or before every heading for h = 0:
\* the lines that are neither blank nor headings up to the next heading
BodyLines(lines, headings, h) ==
    {k \in (h + 1)..Len(lines) :
        /\ lines[k] # <<>>
        /\ \A l \in (h + 1)..k : ~headings[l]}

\* the headings with a body, and 0 when body lines precede every heading
Sections(lines, headings) ==
    {h \in 0..Len(lines) :
        /\ h = 0 \/ headings[h]
        /\ BodyLines(lines, headings, h) # {}}

\* the lines at the places of body, each followed by a space
RECURSIVE BodyText(_, _)
BodyText(lines, body) ==
    IF body = <<>> THEN <<>>
    ELSE lines[Head(body)] \o <<" ">> \o BodyText(lines, Tail(body))

\* the clause of the section at h
SectionClause(lines, headings, h) ==
    Clause(IF h = 0 THEN <<>> ELSE lines[h],
           BodyText(lines, SortedSeq(BodyLines(lines, headings, h))),
           IF h = 0 THEN <<>> ELSE NumberedHeading(lines[h]))

\* clauses are the sections of the lines in the order of the document
HeadingFlush(lines, headings, sections, clauses) ==
    /\ Len(clauses) = Len(sections)
    /\ \A k \in 1..Len(sections) :
          clauses[k] = SectionClause(lines, headings, sections[k])
    /\ \A k \in 2..Len(clauses) : clauses[k].title # <<>>

FlushedOrWhole(text, clauses) ==
    LET lines == StrippedLines(text)
        headings == HeadingLines(lines)
        sections == SortedSeq(Sections(lines, headings))
    IN  IF sections = <<>>
        THEN WholeDocument(clauses, text)
        ELSE HeadingFlush(lines, headings, sections, clauses)

\* C29: the clauses of a text are, in the order of the document, one for each
\* heading line that has a body line before the next heading, titled with the
\* heading, numbered only when the heading is numbered, with the body lines up
\* to the next heading as content whatever blank lines lie between them, and
\* before them one clause without a title for body lines that precede every
\* heading; only that first clause has an empty title.
HeadingFlushPolicy ==
    Returns =>
        /\ FlushedOrWhole(text_a, report.clauses_a)
        /\ FlushedOrWhole(text_b, report.clauses_b)

\* a text whose first clause has no title, with a heading that yields no clause,
\* a blank line inside a clause and a numbered clause
UntitledThenHeadings ==
    /\ Returns
    /\ Len(report.clauses_b) = 3
    /\ report.clauses_b[1].title = <<>>
    /\ report.clauses_b[2].number # <<>>
    /\ report.clauses_b[3].number = <<>>
    /\ LET lines == StrippedLines(text_b)
           headings == HeadingLines(lines)
       IN  /\ Cardinality({k \in 1..Len(lines) : headings[k]}) = 3
           /\ \E k \in 1..Len(lines) :
                 /\ lines[k] = <<>>
                 /\ k - 1 \in BodyLines(lines, headings, 5)
                 /\ k + 1 \in BodyLines(lines, headings, 5)

\* C30: two requests that succeeded never have the same reportId, also when they
\* complete within the same second, and no two saved reports of the user bear
\* the same report_id.
ReportIdsDistinct ==
    /\ \A r, s \in Ids :
          Succeeded(r) /\ Succeeded(s) /\ r # s
              => requests[r].response.reportId # requests[s].response.reportId
    /\ \A k \in 1..Len(reports_table) :
          Cardinality(ReportsById(reports_table, reports_table[k].report_id)) <= 1

=============================================================================
